---- MODULE Spec2Model ----
(***************************************************************************)
(* Geospatial tracking and risk-detection core of the train collision      *)
(* avoidance backend (fastapi-backend/app/core, app/models, app/utils).    *)
(*                                                                         *)
(* Representation.                                                         *)
(*  - A coordinate is an integer number of 1e-5 degree, the precision      *)
(*    round_coordinates keeps.  A location is <<c0, c1>>; Python None, a   *)
(*    missing key and an empty list are all the empty sequence <<>>.       *)
(*  - At this scale the haversine distance is the planar one; one unit is  *)
(*    taken as one metre.  calculate_distance carries the SQUARE of the    *)
(*    distance, and every comparison squares the other side, so that the   *)
(*    order of distances is kept exactly.                                  *)
(*  - Instants are integer seconds.  An optional instant is <<>> or <<t>>. *)
(*  - A collection is the sequence of its documents in natural order;      *)
(*    find_one returns <<>> (None) or <<doc>>.                             *)
(*  - A value computed in floating point before rounding is the rational   *)
(*    [n |-> numerator, d |-> denominator], d > 0.                         *)
(*  - A function that can raise returns [exc |-> "" or the exception,      *)
(*    value |-> ...].                                                      *)
(***************************************************************************)
EXTENDS Integers, Sequences, FiniteSets, TLC

VARIABLES trains, routes, logs, alerts, ret, monitor

vars == <<trains, routes, logs, alerts, ret, monitor>>

store == <<trains, routes, logs, alerts>>

(***************************************************************************)
(* Bounds of the model.                                                    *)
(***************************************************************************)
MaxCheckpoints == 3

MaxRfidCheckpoints == 5

(***************************************************************************)
(* Program constants.                                                      *)
(***************************************************************************)
COLLISION_CRITICAL_DISTANCE == 10

COLLISION_WARNING_DISTANCE == 15

TRAIN_STATUS ==
  {"in_service_running", "in_service_not_running", "maintenance", "out_of_service"}

IN_SERVICE_RUNNING == "in_service_running"

NoTag == "None"

None == <<>>

(***************************************************************************)
(* Arithmetic helpers.                                                     *)
(***************************************************************************)
Sq(x) == x * x

Abs(x) == IF x < 0 THEN -x ELSE x

Min2(a, b) == IF a <= b THEN a ELSE b

Max2(a, b) == IF a >= b THEN a ELSE b

\* Python round(): nearest integer unit, ties to the even one.
RoundHalfEven(n, d) ==
  LET q == n \div d
      r == n - q * d
  IN  IF 2 * r < d THEN q
      ELSE IF 2 * r > d THEN q + 1
      ELSE IF q % 2 = 0 THEN q ELSE q + 1

Rat(n, d) == [n |-> n, d |-> d]

(***************************************************************************)
(* app/utils.py                                                            *)
(***************************************************************************)
\* Squared distance in metres between two coordinates.
calculate_distance(coord1, coord2) ==
  Sq(coord2[1] - coord1[1]) + Sq(coord2[2] - coord1[2])

\* round_coordinates on a two-element list: "lon, lat = lat" binds lon to the
\* first element and lat to the second, and the result is (lat, lon).
round_coordinates(lat) ==
  <<RoundHalfEven(lat[2].n, lat[2].d), RoundHalfEven(lat[1].n, lat[1].d)>>

(***************************************************************************)
(* Store queries (app/models).                                             *)
(***************************************************************************)
\* find_one(filter): the first matching document in natural order, or None.
first_of(coll, matching) ==
  IF matching = {} THEN None
  ELSE <<coll[CHOOSE i \in matching : \A j \in matching : i <= j]>>

get_by_train_id(train_id) ==
  first_of(trains, {i \in 1..Len(trains) : trains[i].train_id = train_id})

get_by_route_id(route_id) ==
  first_of(routes, {i \in 1..Len(routes) : routes[i].route_id = route_id})

\* Sort key of a timestamp: a missing value sorts below every instant.
SortKey(ts) == IF ts = None THEN -1 ELSE ts[1]

\* find_one({"train_id": train_id, "is_test": False}, sort=[("timestamp", -1)]):
\* the matching document with the greatest timestamp, the first one in natural
\* order among equal timestamps.  A document without the key is_test does
\* not match.
get_latest_by_train(train_id) ==
  LET Match(doc) == doc.train_id = train_id /\ "is_test" \in DOMAIN doc /\ ~doc.is_test
      idx == {i \in 1..Len(logs) : Match(logs[i])}
  IN  IF idx = {} THEN None
      ELSE LET best == CHOOSE i \in idx :
                         \A j \in idx :
                            \/ SortKey(logs[j].timestamp) < SortKey(logs[i].timestamp)
                            \/ /\ SortKey(logs[j].timestamp) = SortKey(logs[i].timestamp)
                               /\ i <= j
           IN  <<logs[best]>>

(***************************************************************************)
(* app/core/location.py                                                    *)
(***************************************************************************)
\* Mutant of is_nearer: "<=" lets a later, equally near checkpoint win.
is_nearer_or_equal(distance, min_distance) ==
  min_distance = None \/ distance <= min_distance[1]

\* "if distance < min_distance", line 88; min_distance = <<>> is float('inf').
is_nearer(distance, min_distance) ==
  min_distance = None \/ distance < min_distance[1]

\* The scan of find_nearest_checkpoint; i is the 1-based position, the result
\* carries the 0-based index of the code.
RECURSIVE nearest_scan(_, _, _, _)
nearest_scan(location, checkpoints, i, best) ==
  IF i > Len(checkpoints) THEN best
  ELSE LET checkpoint_location == checkpoints[i].location
       IN  IF checkpoint_location = None
           THEN nearest_scan(location, checkpoints, i + 1, best)
           ELSE LET distance == calculate_distance(location, checkpoint_location)
                IN  IF is_nearer(distance, best.min_distance)
                    THEN nearest_scan(location, checkpoints, i + 1,
                           [checkpoint |-> <<checkpoints[i]>>, index |-> i - 1,
                            min_distance |-> <<distance>>])
                    ELSE nearest_scan(location, checkpoints, i + 1, best)

NotFound == [checkpoint |-> None, index |-> -1]

find_nearest_checkpoint(location, route_id) ==
  LET route == get_by_route_id(route_id)
  IN  IF route = None \/ route[1].checkpoints = <<>> THEN NotFound
      ELSE LET best == nearest_scan(location, route[1].checkpoints, 1,
                         [checkpoint |-> None, index |-> -1, min_distance |-> None])
           IN  [checkpoint |-> best.checkpoint, index |-> best.index]

\* Body(value), with value computed once.
With(value, Body(_)) == CHOOSE r \in {Body(x) : x \in {value}} : TRUE

Returns(v) == [exc |-> "", value |-> v]

Raises(e) == [exc |-> e, value |-> None]

\* progress_ratio = min(1.0, elapsed_seconds / time_between_checkpoints)
progress_ratio(elapsed_seconds, time_between_checkpoints) ==
  IF elapsed_seconds >= time_between_checkpoints THEN Rat(1, 1)
  ELSE Rat(elapsed_seconds, time_between_checkpoints)

\* current_loc[k] + progress_ratio * (next_loc[k] - current_loc[k])
interpolate(cur, nxt, ratio) == Rat(cur * ratio.d + ratio.n * (nxt - cur), ratio.d)

\* Lines 147-168: the segment from checkpoint_idx (0-based) to the next one.
interpolated_location(checkpoints, checkpoint_idx, elapsed_seconds) ==
  LET current_checkpoint == checkpoints[checkpoint_idx + 1]
      next_checkpoint == checkpoints[checkpoint_idx + 2]
      time_between_checkpoints == next_checkpoint.interval - current_checkpoint.interval
  IN  IF time_between_checkpoints <= 0 THEN Returns(current_checkpoint.location)
      ELSE IF next_checkpoint.location = None THEN Raises("TypeError")
      ELSE LET ratio == progress_ratio(elapsed_seconds, time_between_checkpoints)
               current_loc == current_checkpoint.location
               next_loc == next_checkpoint.location
           IN  Returns(round_coordinates(
                 <<interpolate(current_loc[1], next_loc[1], ratio),
                   interpolate(current_loc[2], next_loc[2], ratio)>>))

\* Lines 143-145: no next checkpoint.
at_route_end(checkpoints, checkpoint_idx) == checkpoint_idx >= Len(checkpoints) - 1

\* Mutant of route_end_location: the coordinates go through the (lat, lon)
\* reordering of round_coordinates like the interpolated ones.
route_end_location_rounded(checkpoints) ==
  <<checkpoints[Len(checkpoints)].location[2], checkpoints[Len(checkpoints)].location[1]>>

\* route["checkpoints"][-1]["location"], line 145.
route_end_location(checkpoints) == checkpoints[Len(checkpoints)].location

get_expected_location(train_id, current_time) ==
  LET train == get_by_train_id(train_id)
  IN  IF train = None \/ train[1].current_route_id = "" THEN Returns(None)
      ELSE
      LET route == get_by_route_id(train[1].current_route_id)
      IN  IF route = None \/ Len(route[1].checkpoints) < 2 THEN Returns(None)
          ELSE
          LET latest_log == get_latest_by_train(train_id)
          IN  IF latest_log = None \/ latest_log[1].timestamp = None THEN Returns(None)
              ELSE
              LET log_time == latest_log[1].timestamp[1]
                  elapsed_seconds == current_time - log_time
              IN  IF latest_log[1].location = None THEN Returns(None)
                  ELSE
                  LET nearest == find_nearest_checkpoint(latest_log[1].location,
                                                         train[1].current_route_id)
                      checkpoints == route[1].checkpoints
                  IN  IF nearest.checkpoint = None \/ nearest.index = -1
                      THEN Returns(None)
                      ELSE IF at_route_end(checkpoints, nearest.index)
                      THEN Returns(route_end_location(checkpoints))
                      ELSE interpolated_location(checkpoints, nearest.index,
                                                 elapsed_seconds)

\* The scan of lines 202-204 over the 0-based indices i .. stop - 1.
RECURSIVE rfid_scan(_, _, _, _)
rfid_scan(checkpoints, rfid_tag, i, stop) ==
  IF i >= stop THEN NotFound
  ELSE IF checkpoints[i + 1].rfid_tag = rfid_tag
       THEN [checkpoint |-> <<checkpoints[i + 1]>>, index |-> i]
       ELSE rfid_scan(checkpoints, rfid_tag, i + 1, stop)

\* Mutant of rfid_scan_stop: the scan looks one checkpoint further ahead.
rfid_scan_stop_wide(expected_idx, n) == Min2(expected_idx + 4, n)

\* range(expected_idx + 1, min(expected_idx + 3, len(checkpoints))), line 202.
rfid_scan_stop(expected_idx, n) == Min2(expected_idx + 3, n)

\* The code returns the matching checkpoint; the result also carries the index
\* at which it was found.  last_checkpoint_idx is -1 (nothing confirmed yet) or
\* an index of the route, as get_train_position supplies it.
verify_rfid_checkpoint(rfid_tag, route_id, last_checkpoint_idx) ==
  LET route == get_by_route_id(route_id)
  IN  IF route = None \/ route[1].checkpoints = <<>> THEN NotFound
      ELSE
      LET checkpoints == route[1].checkpoints
          expected_idx == last_checkpoint_idx + 1
      IN  IF expected_idx >= Len(checkpoints) THEN NotFound
          ELSE IF checkpoints[expected_idx + 1].rfid_tag = rfid_tag
          THEN [checkpoint |-> <<checkpoints[expected_idx + 1]>>, index |-> expected_idx]
          ELSE rfid_scan(checkpoints, rfid_tag, expected_idx + 1,
                         rfid_scan_stop(expected_idx, Len(checkpoints)))

(***************************************************************************)
(* app/models/train.py, app/models/alert.py                                *)
(***************************************************************************)
SYSTEM_SENDER_ID == "680142a4f8db812a8b87617c"

GUEST_RECIPIENT_ID == "680142cff8db812a8b87617d"

\* find({"current_status": "in_service_running"}) in natural order.
get_active_trains ==
  LET Running(doc) == doc.current_status = IN_SERVICE_RUNNING
  IN  SelectSeq(trains, Running)

\* Mutant of AlertModel_create: the alert takes the place of the newest one
\* of the collection instead of being added.
AlertModel_create_replacing(coll, alert_data) ==
  IF coll = <<>> THEN <<alert_data>>
  ELSE [coll EXCEPT ![Len(coll)] = alert_data]

\* AlertModel.create on the collection coll: the alert is inserted with its
\* location passed through round_coordinates, followed by a copy for the
\* guest account unless the guest is the recipient already.
AlertModel_create(coll, alert_data) ==
  LET stored == [alert_data EXCEPT
                   !.location = IF alert_data.location = None THEN None
                                ELSE round_coordinates(alert_data.location)]
  IN  IF stored.recipient_ref # GUEST_RECIPIENT_ID
      THEN coll \o <<stored, [stored EXCEPT !.recipient_ref = GUEST_RECIPIENT_ID]>>
      ELSE coll \o <<stored>>

(***************************************************************************)
(* app/core/collision.py                                                   *)
(***************************************************************************)
time_offsets == <<5, 10, 15, 30, 60>>

\* [(a[0] + b[0]) / 2, (a[1] + b[1]) / 2]
midpoint(a, b) == <<Rat(a[1] + b[1], 2), Rat(a[2] + b[2], 2)>>

\* Mutant of is_critical: "<" leaves the threshold distance itself out.
is_critical_strict(distance) == distance < Sq(COLLISION_CRITICAL_DISTANCE)

\* Lines 54, 61 and 84: the comparisons with the two thresholds.
is_critical(distance) == distance <= Sq(COLLISION_CRITICAL_DISTANCE)

\* Mutant of is_warning: a cache of what the last call found keeps a pair
\* from being reported as a warning twice in a row.
is_warning_once(distance) ==
  /\ distance <= Sq(COLLISION_WARNING_DISTANCE)
  /\ ~(/\ ret.op = "check_collision_risk"
       /\ ret.result.value.collision_risk = "warning")

is_warning(distance) == distance <= Sq(COLLISION_WARNING_DISTANCE)

\* Mutant of time_to_collision: the offset is recorded in minutes.
time_to_collision_minutes(minutes) == minutes

\* "estimated_time_to_collision = minutes * 60", line 86.
time_to_collision(minutes) == minutes * 60

\* The loop of lines 70-91 from the k-th offset on.  evaluated lists the
\* offsets whose expected positions were asked for.
RECURSIVE projection_scan(_, _, _, _, _, _)
projection_scan(train_id1, train_id2, now, k, result, evaluated) ==
  IF k > Len(time_offsets)
  THEN [exc |-> "", value |-> result, evaluated |-> evaluated]
  ELSE
  LET minutes == time_offsets[k]
      future_time == now + 60 * minutes
      expected_loc1 == get_expected_location(train_id1, future_time)
      expected_loc2 == get_expected_location(train_id2, future_time)
      seen == Append(evaluated, minutes)
  IN  IF expected_loc1.exc # ""
      THEN [exc |-> expected_loc1.exc, value |-> result, evaluated |-> seen]
      ELSE IF expected_loc2.exc # ""
      THEN [exc |-> expected_loc2.exc, value |-> result, evaluated |-> seen]
      ELSE IF expected_loc1.value = None \/ expected_loc2.value = None
      THEN projection_scan(train_id1, train_id2, now, k + 1, result, seen)
      ELSE IF is_critical(calculate_distance(expected_loc1.value, expected_loc2.value))
      THEN [exc |-> "",
            value |-> [result EXCEPT
                         !.collision_risk = "predicted",
                         !.estimated_time_to_collision = <<time_to_collision(minutes)>>,
                         !.location = midpoint(expected_loc1.value, expected_loc2.value)],
            evaluated |-> seen]
      ELSE projection_scan(train_id1, train_id2, now, k + 1, result, seen)

check_collision_risk(train_id1, train_id2, now) ==
  LET latest_log1 == get_latest_by_train(train_id1)
      latest_log2 == get_latest_by_train(train_id2)
      result == [train1_id |-> train_id1, train2_id |-> train_id2,
                 collision_risk |-> "none", distance |-> None,
                 estimated_time_to_collision |-> None, location |-> None,
                 timestamp |-> now]
  IN  IF \/ latest_log1 = None \/ latest_log1[1].location = None
         \/ latest_log2 = None \/ latest_log2[1].location = None
      THEN [exc |-> "", value |-> result, evaluated |-> <<>>]
      ELSE
      LET loc1 == latest_log1[1].location
          loc2 == latest_log2[1].location
          current_distance == calculate_distance(loc1, loc2)
          measured == [result EXCEPT !.distance = <<current_distance>>]
      IN  IF is_critical(current_distance)
          THEN [exc |-> "",
                value |-> [measured EXCEPT !.collision_risk = "critical",
                                           !.location = midpoint(loc1, loc2)],
                evaluated |-> <<>>]
          ELSE IF is_warning(current_distance)
          THEN projection_scan(train_id1, train_id2, now, 1,
                 [measured EXCEPT !.collision_risk = "warning",
                                  !.location = midpoint(loc1, loc2)], <<>>)
          ELSE projection_scan(train_id1, train_id2, now, 1, measured, <<>>)

\* The message of lines 184-188, by its parts.
collision_message(collision_risk) ==
  IF collision_risk.collision_risk = "critical"
  THEN [text |-> "CRITICAL: Imminent collision risk",
        train1_id |-> collision_risk.train1_id, train2_id |-> collision_risk.train2_id,
        distance |-> collision_risk.distance, minutes |-> None]
  ELSE [text |-> "WARNING: Potential collision",
        train1_id |-> collision_risk.train1_id, train2_id |-> collision_risk.train2_id,
        distance |-> None,
        minutes |-> <<collision_risk.estimated_time_to_collision[1] \div 60>>]

\* create_collision_alert on the alert collection coll: [exc, alerts].  An
\* unset estimated time cannot be divided (line 187) and the "_id" of a train
\* that is not found cannot be read (lines 192-193).
create_collision_alert(coll, collision_risk, now) ==
  LET train1 == get_by_train_id(collision_risk.train1_id)
      train2 == get_by_train_id(collision_risk.train2_id)
  IN  IF \/ collision_risk.collision_risk # "critical"
            /\ collision_risk.estimated_time_to_collision = None
         \/ train1 = None \/ train2 = None
      THEN [exc |-> "TypeError", alerts |-> coll]
      ELSE
      LET alert_data(train_ref) ==
            [sender_ref |-> SYSTEM_SENDER_ID, recipient_ref |-> train_ref,
             message |-> collision_message(collision_risk),
             location |-> collision_risk.location, timestamp |-> now]
      IN  [exc |-> "",
           alerts |-> AlertModel_create(AlertModel_create(coll, alert_data(train1[1].oid)),
                                        alert_data(train2[1].oid))]

\* Mutant of needs_alert: every listed risk is alerted, a warning too.
needs_alert_any(risk) == risk.collision_risk # "none"

\* "if risk['collision_risk'] in ['critical', 'predicted']", line 168.
needs_alert(risk) == risk.collision_risk \in {"critical", "predicted"}

\* Mutant of inner_start: the inner loop starts at the outer train itself.
inner_start_same(i) == i

\* "for j in range(i + 1, len(active_trains))", line 157 (1-based here).
inner_start(i) == i + 1

\* The body of the inner loop, lines 158-169, for the pair (train1_id,
\* train2_id) with the assessment risk: the accumulator after it.  acc carries
\* the list of risks, the alert collection, the calls of check_collision_risk
\* made so far, and the exception that ended the scan, if any.
pair_step(train1_id, train2_id, risk, now, acc) ==
  LET called == [acc EXCEPT !.calls = Append(acc.calls, <<train1_id, train2_id>>)]
  IN  IF risk.exc # "" THEN [called EXCEPT !.exc = risk.exc]
      ELSE IF risk.value.collision_risk = "none" THEN called
      ELSE
      LET listed == [called EXCEPT
                       !.collision_risks = Append(called.collision_risks, risk.value)]
      IN  IF ~needs_alert(risk.value) THEN listed
          ELSE LET created == create_collision_alert(listed.alerts, risk.value, now)
               IN  [listed EXCEPT !.exc = created.exc, !.alerts = created.alerts]

\* The loops of lines 156-169 from the pair (i, j) on; an exception ends
\* them.  The assessment and the accumulator of a pair are bound once.
RECURSIVE pair_scan(_, _, _, _, _)
pair_scan(active_trains, i, j, now, acc) ==
  IF i > Len(active_trains) THEN acc
  ELSE IF j > Len(active_trains)
  THEN pair_scan(active_trains, i + 1, inner_start(i + 1), now, acc)
  ELSE
  LET train1_id == active_trains[i].train_id
      train2_id == active_trains[j].train_id
      after == {pair_step(train1_id, train2_id, risk, now, before) :
                  risk \in {check_collision_risk(train1_id, train2_id, now)},
                  before \in {acc}}
  IN  CHOOSE done \in {IF next.exc # "" THEN next
                       ELSE pair_scan(active_trains, i, j + 1, now, next) :
                       next \in after} : TRUE

\* check_all_train_collisions on the alert collection coll.
check_all_train_collisions(coll, now) ==
  pair_scan(get_active_trains, 1, inner_start(1), now,
            [collision_risks |-> <<>>, alerts |-> coll, calls |-> <<>>, exc |-> ""])

(***************************************************************************)
(* Store contents the specifications start from.                           *)
(***************************************************************************)
Checkpoint(location, interval, rfid_tag) ==
  [location |-> location, interval |-> interval, rfid_tag |-> rfid_tag]

\* oid is the document's _id.
Train(train_id, current_status, current_route_id) ==
  [oid |-> "oid_" \o train_id, train_id |-> train_id,
   current_status |-> current_status, current_route_id |-> current_route_id]

Route(route_id, checkpoints) == [route_id |-> route_id, checkpoints |-> checkpoints]

Log(train_id, location, timestamp, is_test) ==
  [train_id |-> train_id, location |-> location, timestamp |-> timestamp,
   is_test |-> is_test]

NoCall == [op |-> "none"]

\* The monitoring task is not created (app/main.py, line 89).
NotMonitoring == [pc |-> "not_started", stop_event |-> FALSE]

\* Checkpoint coordinates; a checkpoint may also carry none.
CheckpointLocations == {None, <<0, 0>>, <<0, 20>>, <<30, 20>>}

\* Interval offsets: the first one is 0 and they never decrease (the route
\* schema rejects anything else).
IntervalValues == {0, 600, 1200}

IntervalSeqs(n) ==
  {q \in [1..n -> IntervalValues] :
     /\ n > 0 => q[1] = 0
     /\ \A i \in 1..(n - 1) : q[i] <= q[i + 1]}

GeoCheckpoints(n) ==
  {[i \in 1..n |-> Checkpoint(l[i], q[i], NoTag)] :
     l \in [1..n -> CheckpointLocations], q \in IntervalSeqs(n)}

GeoRoutes == UNION {GeoCheckpoints(n) : n \in 0..MaxCheckpoints}

\* Positions of samples and queries: <<0, 10>> is as far from <<0, 0>> as
\* from <<0, 20>>.
SamplePoints == {<<0, 10>>, <<1, 1>>, <<28, 18>>}

SampleTimes == {600}

\* Evaluation instants: before, at and after the sample, up to twice the
\* longest segment later.
EvalTimes == {300, 600, 900, 1200, 1800, 3000}

\* An older sample and a newer test sample around the latest one.
Decoys(train_id) ==
  <<Log(train_id, <<28, 18>>, <<0>>, FALSE), Log(train_id, <<1, 1>>, <<900>>, TRUE)>>

\* A train on route R1 with a complete latest sample.
InitEvaluable ==
  /\ trains = <<Train("T1", IN_SERVICE_RUNNING, "R1")>>
  /\ \E cps \in GeoRoutes : routes = <<Route("R1", cps)>>
  /\ \E p \in SamplePoints, decoy \in BOOLEAN :
       logs = (IF decoy THEN Decoys("T1") ELSE <<>>)
                \o <<Log("T1", p, <<CHOOSE t \in SampleTimes : TRUE>>, FALSE)>>

SmallRoutes ==
  {<<>>,
   <<Checkpoint(<<0, 0>>, 0, NoTag)>>,
   <<Checkpoint(<<0, 0>>, 0, NoTag), Checkpoint(<<0, 20>>, 600, NoTag)>>}

\* Some part of what an evaluation needs may be missing.
InitIncomplete ==
  /\ \/ trains = <<>>
     \/ \E r \in {"", "R1", "R9"} : trains = <<Train("T1", IN_SERVICE_RUNNING, r)>>
  /\ \/ routes = <<>>
     \/ \E cps \in SmallRoutes : routes = <<Route("R1", cps)>>
  /\ \/ logs = <<>>
     \/ \E t \in SampleTimes : logs = <<Log("T1", <<1, 1>>, <<t>>, TRUE)>>
     \/ \E p \in {None, <<1, 1>>}, t \in {None} \cup {<<u>> : u \in SampleTimes} :
          logs = <<Log("T1", p, t, FALSE)>>

Init ==
  /\ alerts = <<>>
  /\ monitor = NotMonitoring
  /\ ret = NoCall
  /\ InitEvaluable \/ InitIncomplete

(***************************************************************************)
(* Calls of the location functions.                                        *)
(***************************************************************************)
FindNearestCheckpoint ==
  \E location \in SamplePoints, route_id \in {"R1", "R9"} :
    /\ ret' = [op |-> "find_nearest_checkpoint", location |-> location,
               route_id |-> route_id,
               result |-> find_nearest_checkpoint(location, route_id)]
    /\ UNCHANGED <<store, monitor>>

GetExpectedLocation ==
  \E current_time \in EvalTimes :
    /\ ret' = [op |-> "get_expected_location", train_id |-> "T1",
               current_time |-> current_time,
               result |-> get_expected_location("T1", current_time)]
    /\ UNCHANGED <<store, monitor>>

Next == FindNearestCheckpoint \/ GetExpectedLocation

Spec == Init /\ [][Next]_vars

(***************************************************************************)
(* Notions the properties are stated with.                                 *)
(***************************************************************************)
WithCoordinates(checkpoints) ==
  {i \in 1..Len(checkpoints) : checkpoints[i].location # None}

\* Position i (1-based) is the nearest checkpoint with coordinates, the
\* lowest-indexed one among the equally near.
IsNearest(location, checkpoints, i) ==
  /\ i \in WithCoordinates(checkpoints)
  /\ \A j \in WithCoordinates(checkpoints) :
       LET di == calculate_distance(location, checkpoints[i].location)
           dj == calculate_distance(location, checkpoints[j].location)
       IN  dj > di \/ (dj = di /\ i <= j)

RouteOfTrain(train_id) ==
  LET train == get_by_train_id(train_id)
  IN  IF train = None \/ train[1].current_route_id = "" THEN None
      ELSE get_by_route_id(train[1].current_route_id)

\* The cases C8 lists: no train or no route, the route missing or with fewer
\* than 2 checkpoints, no latest sample or a sample without location or
\* timestamp.  A route of whose checkpoints none has coordinates is read as a
\* route without checkpoints.
NotEvaluable(train_id) ==
  LET route == RouteOfTrain(train_id)
      sample == get_latest_by_train(train_id)
  IN  \/ route = None
      \/ Len(route[1].checkpoints) < 2
      \/ WithCoordinates(route[1].checkpoints) = {}
      \/ sample = None
      \/ sample[1].location = None
      \/ sample[1].timestamp = None

\* The train is evaluable and position k (1-based) of its route is the
\* checkpoint nearest to its latest sample.
NearestIs(train_id, k) ==
  /\ ~NotEvaluable(train_id)
  /\ IsNearest(get_latest_by_train(train_id)[1].location,
               RouteOfTrain(train_id)[1].checkpoints, k)

\* ... and the segment from k to k + 1 has a positive duration and an end
\* with coordinates.
OnSegmentFrom(train_id, k) ==
  LET checkpoints == RouteOfTrain(train_id)[1].checkpoints
  IN  /\ NearestIs(train_id, k)
      /\ k < Len(checkpoints)
      /\ checkpoints[k + 1].interval - checkpoints[k].interval > 0
      /\ checkpoints[k + 1].location # None

\* p lies between a and b on the segment from a to b, up to the rounding of
\* each component to one unit.
WithinSegment(p, a, b) ==
  /\ Min2(a[1], b[1]) <= p[1] /\ p[1] <= Max2(a[1], b[1])
  /\ Min2(a[2], b[2]) <= p[2] /\ p[2] <= Max2(a[2], b[2])
  /\ 2 * Abs((p[1] - a[1]) * (b[2] - a[2]) - (p[2] - a[2]) * (b[1] - a[1]))
       <= Abs(b[1] - a[1]) + Abs(b[2] - a[2])

ExpectedCall == ret.op = "get_expected_location"

(***************************************************************************)
(* Properties of get_expected_location.                                    *)
(***************************************************************************)
\* C5: for every evaluation instant, also one before the latest sample, the
\* position get_expected_location returns lies on the segment between the
\* current and the next checkpoint (progress clamped to [0, 1]).  The order of
\* the two components is the matter of C6: either order is accepted here.
C5_ProgressClamped ==
  ExpectedCall =>
    \A k \in 1..MaxCheckpoints + 1 :
      OnSegmentFrom(ret.train_id, k) =>
        LET checkpoints == RouteOfTrain(ret.train_id)[1].checkpoints
            a == checkpoints[k].location
            b == checkpoints[k + 1].location
            p == ret.result.value
        IN  /\ ret.result.exc = ""
            /\ p # None
            /\ WithinSegment(p, a, b) \/ WithinSegment(<<p[2], p[1]>>, a, b)

\* C6: with the latest sample nearest to checkpoint k, segment duration D > 0
\* and 0 <= e <= D, get_expected_location at sample time + e returns
\* cur + (e / D) * (next - cur), component by component in the order of the
\* checkpoint coordinates (each component rounded to one unit).
C6_InterpolatesInOrder ==
  ExpectedCall =>
    \A k \in 1..MaxCheckpoints + 1 :
      OnSegmentFrom(ret.train_id, k) =>
        LET checkpoints == RouteOfTrain(ret.train_id)[1].checkpoints
            cur == checkpoints[k].location
            nxt == checkpoints[k + 1].location
            D == checkpoints[k + 1].interval - checkpoints[k].interval
            e == ret.current_time - get_latest_by_train(ret.train_id)[1].timestamp[1]
        IN  (0 <= e /\ e <= D) =>
              ret.result = Returns(<<RoundHalfEven(cur[1] * D + e * (nxt[1] - cur[1]), D),
                                     RoundHalfEven(cur[2] * D + e * (nxt[2] - cur[2]), D)>>)

\* C7: when the checkpoint nearest to the latest sample is the final one,
\* get_expected_location returns the final checkpoint's coordinates unchanged,
\* whatever the evaluation instant.
C7_FinalCheckpointUnchanged ==
  ExpectedCall =>
    LET route == RouteOfTrain(ret.train_id)
    IN  (route # None /\ NearestIs(ret.train_id, Len(route[1].checkpoints))) =>
          ret.result = Returns(route[1].checkpoints[Len(route[1].checkpoints)].location)

\* C7 witness: a train nearest to the final checkpoint <<30, 20>> of a three
\* checkpoint route, evaluated long after its sample.
C7_Witness ==
  /\ ExpectedCall
  /\ ret.current_time > get_latest_by_train(ret.train_id)[1].timestamp[1]
  /\ RouteOfTrain(ret.train_id) # None
  /\ Len(RouteOfTrain(ret.train_id)[1].checkpoints) = 3
  /\ NearestIs(ret.train_id, 3)
  /\ ret.result = Returns(<<30, 20>>)

\* C8: get_expected_location never raises; it returns None exactly when the
\* train or its route is missing, the route has fewer than 2 checkpoints, or
\* there is no latest sample with a location and a timestamp, and a position
\* in every other case.
C8_UnknownNeverRaises ==
  ExpectedCall =>
    /\ ret.result.exc = ""
    /\ ret.result.value = None <=> NotEvaluable(ret.train_id)

(***************************************************************************)
(* Properties of find_nearest_checkpoint.                                  *)
(***************************************************************************)
\* C10: find_nearest_checkpoint returns the index and the checkpoint that
\* minimise the distance over the checkpoints with coordinates, the lowest
\* index among the equally near, and (None, -1) when the route does not exist,
\* has no checkpoints, or none of them has coordinates.
C10_NearestCheckpoint ==
  ret.op = "find_nearest_checkpoint" =>
    LET route == get_by_route_id(ret.route_id)
    IN  IF route = None \/ WithCoordinates(route[1].checkpoints) = {}
        THEN ret.result = NotFound
        ELSE /\ IsNearest(ret.location, route[1].checkpoints, ret.result.index + 1)
             /\ ret.result.checkpoint = <<route[1].checkpoints[ret.result.index + 1]>>

\* C10 witness: the first checkpoint has no coordinates and the next two are
\* equally near; the lower index 1 is returned.
C10_Witness ==
  /\ ret.op = "find_nearest_checkpoint"
  /\ ret.result.index = 1
  /\ LET route == get_by_route_id(ret.route_id)
     IN  /\ route # None
         /\ Len(route[1].checkpoints) = 3
         /\ route[1].checkpoints[1].location = None
         /\ route[1].checkpoints[3].location # None
         /\ calculate_distance(ret.location, route[1].checkpoints[2].location)
              = calculate_distance(ret.location, route[1].checkpoints[3].location)

(***************************************************************************)
(* RFID confirmation: routes that differ in the tags of their checkpoints. *)
(***************************************************************************)
RfidTags == {"TAG_A", "TAG_B"}

RfidCheckpoints(n) ==
  {[i \in 1..n |-> Checkpoint(<<10 * i, 0>>, 600 * (i - 1), g[i])] :
     g \in [1..n -> RfidTags \cup {NoTag}]}

RfidRoutes == UNION {RfidCheckpoints(n) : n \in 0..MaxRfidCheckpoints}

InitRfid ==
  /\ trains = <<Train("T1", IN_SERVICE_RUNNING, "R1")>>
  /\ \E cps \in RfidRoutes : routes = <<Route("R1", cps)>>
  /\ logs = <<>>
  /\ alerts = <<>>
  /\ monitor = NotMonitoring
  /\ ret = NoCall

VerifyRfidCheckpoint ==
  \E rfid_tag \in RfidTags, route_id \in {"R1", "R9"},
     last_checkpoint_idx \in -1..MaxRfidCheckpoints :
    /\ ret' = [op |-> "verify_rfid_checkpoint", rfid_tag |-> rfid_tag,
               route_id |-> route_id, last_checkpoint_idx |-> last_checkpoint_idx,
               result |-> verify_rfid_checkpoint(rfid_tag, route_id, last_checkpoint_idx)]
    /\ UNCHANGED <<store, monitor>>

NextRfid == VerifyRfidCheckpoint

SpecRfid == InitRfid /\ [][NextRfid]_vars

\* C9: with expected = last + 1, verify_rfid_checkpoint returns no match when
\* expected is past the end of the route, else the lowest-indexed checkpoint
\* among expected, expected + 1 and expected + 2 (within the route) whose tag
\* is the given one, else no match; a confirmed index is never <= last nor
\* > last + 3.
C9_RfidWindow ==
  ret.op = "verify_rfid_checkpoint" =>
    LET route == get_by_route_id(ret.route_id)
        checkpoints == IF route = None THEN <<>> ELSE route[1].checkpoints
        expected == ret.last_checkpoint_idx + 1
        matching == {i \in expected..Min2(expected + 2, Len(checkpoints) - 1) :
                       checkpoints[i + 1].rfid_tag = ret.rfid_tag}
    IN  /\ IF matching = {}
           THEN ret.result = NotFound
           ELSE LET first == CHOOSE i \in matching : \A j \in matching : i <= j
                IN  ret.result = [checkpoint |-> <<checkpoints[first + 1]>>,
                                  index |-> first]
        /\ ret.result # NotFound =>
             /\ ret.result.index > ret.last_checkpoint_idx
             /\ ret.result.index <= ret.last_checkpoint_idx + 3

\* C9 witness: the tag is carried by the checkpoint right after the window
\* and by none inside it, and nothing is confirmed.
C9_Witness ==
  /\ ret.op = "verify_rfid_checkpoint"
  /\ ret.result = NotFound
  /\ LET route == get_by_route_id(ret.route_id)
     IN  /\ route # None
         /\ Len(route[1].checkpoints) >= ret.last_checkpoint_idx + 5
         /\ route[1].checkpoints[ret.last_checkpoint_idx + 5].rfid_tag = ret.rfid_tag
         /\ ret.last_checkpoint_idx >= 0

(***************************************************************************)
(* Collision risk of a pair: two trains on routes of one hour.             *)
(***************************************************************************)
\* RA and RB are the same diagonal track in opposite directions, RD runs
\* along the first axis, RE is a short track along the second one.
CollisionRoutes ==
  <<Route("RA", <<Checkpoint(<<0, 0>>, 0, NoTag), Checkpoint(<<240, 240>>, 3600, NoTag)>>),
    Route("RB", <<Checkpoint(<<240, 240>>, 0, NoTag), Checkpoint(<<0, 0>>, 3600, NoTag)>>),
    Route("RD", <<Checkpoint(<<0, 0>>, 0, NoTag), Checkpoint(<<240, 0>>, 3600, NoTag)>>),
    Route("RE", <<Checkpoint(<<0, 0>>, 0, NoTag), Checkpoint(<<0, 60>>, 600, NoTag)>>)>>

\* "R9" is the id of no route.
TrainRoutes == {"", "RA", "RB", "RD", "RE", "R9"}

\* <<6, 8>> is exactly 10 m and <<9, 12>> exactly 15 m from <<0, 0>>.
PairPoints == {<<0, 0>>, <<6, 8>>, <<9, 12>>, <<12, 12>>, <<0, 60>>, <<240, 240>>}

PairTimes == {3300, 3600}

NowTimes == {3600, 3900}

\* The samples of one train: none, or one without location or timestamp, or
\* a complete one.
PairLogs(train_id) ==
  {<<>>, <<Log(train_id, None, <<3600>>, FALSE)>>, <<Log(train_id, <<0, 0>>, None, FALSE)>>}
    \cup {<<Log(train_id, p, <<t>>, FALSE)>> : p \in PairPoints, t \in PairTimes}

InitCollision ==
  /\ \E r1 \in TrainRoutes, r2 \in TrainRoutes :
       trains = <<Train("T1", IN_SERVICE_RUNNING, r1), Train("T2", IN_SERVICE_RUNNING, r2)>>
  /\ routes = CollisionRoutes
  /\ \E l1 \in PairLogs("T1"), l2 \in PairLogs("T2") : logs = l1 \o l2
  /\ alerts = <<>>
  /\ monitor = NotMonitoring
  /\ ret = NoCall

CheckCollisionRisk ==
  \E train_id1 \in {"T1", "T2"}, train_id2 \in {"T1", "T2"}, now \in NowTimes :
    /\ train_id1 # train_id2
    /\ ret' = [op |-> "check_collision_risk", train_id1 |-> train_id1,
               train_id2 |-> train_id2, now |-> now,
               result |-> check_collision_risk(train_id1, train_id2, now)]
    /\ UNCHANGED <<store, monitor>>

NextCollision == CheckCollisionRisk

SpecCollision == InitCollision /\ [][NextCollision]_vars

(***************************************************************************)
(* The pairwise scan over a fleet of up to three trains.                   *)
(***************************************************************************)
MaxAlerts == 4

FleetIds == {"T1", "T2", "T3"}

\* Every ordering of every subset of the fleet.
FleetOrders ==
  UNION {{q \in [1..n -> FleetIds] : \A i, j \in 1..n : i # j => q[i] # q[j]} :
           n \in 0..Cardinality(FleetIds)}

\* What a train of the fleet is doing: its route and its latest sample; a
\* train without a position has only a test sample, which the queries skip.
\* <<0, 0>> and <<6, 8>> are 10 m apart, <<6, 8>> and <<21, 8>> 15 m.
FleetSituations ==
  {[route |-> "RA", location |-> <<<<0, 0>>>>],
   [route |-> "RA", location |-> <<<<6, 8>>>>],
   [route |-> "RA", location |-> <<<<21, 8>>>>],
   [route |-> "", location |-> <<<<21, 8>>>>],
   [route |-> "", location |-> <<>>]}

InitFleet ==
  /\ \E order \in FleetOrders :
       \E status \in [1..Len(order) -> TRAIN_STATUS],
          situation \in [1..Len(order) -> FleetSituations] :
         /\ trains = [i \in 1..Len(order) |->
                        Train(order[i], status[i], situation[i].route)]
         /\ logs = [i \in 1..Len(order) |->
                      Log(order[i],
                          IF situation[i].location = <<>> THEN None
                          ELSE situation[i].location[1],
                          <<3600>>, situation[i].location = <<>>)]
  /\ routes = CollisionRoutes
  /\ alerts = <<>>
  /\ monitor = NotMonitoring
  /\ ret = NoCall

CheckAllTrainCollisions ==
  \E now \in {3600} :
    /\ Len(alerts) < MaxAlerts
    /\ LET done == check_all_train_collisions(alerts, now)
       IN  /\ alerts' = done.alerts
           /\ ret' = [op |-> "check_all_train_collisions", now |-> now,
                      alerts_before |-> Len(alerts),
                      result |-> [exc |-> done.exc,
                                  value |-> done.collision_risks,
                                  calls |-> done.calls]]
    /\ UNCHANGED <<trains, routes, logs, monitor>>

NextFleet == CheckAllTrainCollisions

SpecFleet == InitFleet /\ [][NextFleet]_vars

(***************************************************************************)
(* Properties of check_collision_risk.                                     *)
(***************************************************************************)
RiskCall == ret.op = "check_collision_risk"

\* Both trains of the call have a latest sample with a location.
BothLocated ==
  /\ get_latest_by_train(ret.train_id1) # None
  /\ get_latest_by_train(ret.train_id2) # None
  /\ get_latest_by_train(ret.train_id1)[1].location # None
  /\ get_latest_by_train(ret.train_id2)[1].location # None

Loc1 == get_latest_by_train(ret.train_id1)[1].location

Loc2 == get_latest_by_train(ret.train_id2)[1].location

\* Squares of the current distance and of the two thresholds.
CurrentD2 == Sq(Loc1[1] - Loc2[1]) + Sq(Loc1[2] - Loc2[2])

CriticalD2 == COLLISION_CRITICAL_DISTANCE * COLLISION_CRITICAL_DISTANCE

WarningD2 == COLLISION_WARNING_DISTANCE * COLLISION_WARNING_DISTANCE

Midpoint(a, b) == <<Rat(a[1] + b[1], 2), Rat(a[2] + b[2], 2)>>

\* C1: with a latest position of both trains and current distance d: d <=
\* critical gives risk critical at the midpoint, with no projection (never
\* predicted, no estimated time); otherwise the level before projection, which
\* is the result unless a projection hits, is warning at the midpoint when
\* d <= warning, and none beyond.
C1_CurrentDistanceLevel ==
  (RiskCall /\ BothLocated) =>
    LET r == ret.result.value
    IN  IF CurrentD2 <= CriticalD2
        THEN /\ ret.result.exc = ""
             /\ r.collision_risk = "critical"
             /\ r.location = Midpoint(Loc1, Loc2)
             /\ r.estimated_time_to_collision = None
             /\ ret.result.evaluated = <<>>
        ELSE (ret.result.exc = "" /\ r.collision_risk # "predicted") =>
               IF CurrentD2 <= WarningD2
               THEN r.collision_risk = "warning" /\ r.location = Midpoint(Loc1, Loc2)
               ELSE r.collision_risk = "none" /\ r.location = None

\* C1 witness: two trains exactly at the critical distance, both on a route
\* on which they could be projected, assessed critical.
C1_Witness ==
  /\ RiskCall
  /\ BothLocated
  /\ CurrentD2 = CriticalD2
  /\ get_expected_location(ret.train_id1, ret.now + 300).value # None
  /\ get_expected_location(ret.train_id2, ret.now + 300).value # None
  /\ ret.result.value.collision_risk = "critical"

\* The expected positions of the two trains at a lookahead offset.
Projected1(minutes) == get_expected_location(ret.train_id1, ret.now + 60 * minutes)

Projected2(minutes) == get_expected_location(ret.train_id2, ret.now + 60 * minutes)

Offsets == {5, 10, 15, 30, 60}

\* The offsets that are not skipped and whose projected distance is within
\* the critical threshold.
Hits ==
  {m \in Offsets :
     /\ Projected1(m).value # None
     /\ Projected2(m).value # None
     /\ Sq(Projected1(m).value[1] - Projected2(m).value[1])
          + Sq(Projected1(m).value[2] - Projected2(m).value[2]) <= CriticalD2}

\* The offsets up to m, in increasing order.
OffsetsUpTo(m) ==
  IF m < 10 THEN <<5>>
  ELSE IF m < 15 THEN <<5, 10>>
  ELSE IF m < 30 THEN <<5, 10, 15>>
  ELSE IF m < 60 THEN <<5, 10, 15, 30>>
  ELSE <<5, 10, 15, 30, 60>>

\* C2: above the critical distance the offsets 5, 10, 15, 30, 60 are scanned
\* in this order; the result is predicted exactly when some offset that is not
\* skipped has a projected distance within the critical threshold, and then
\* the estimated time is 60 times the smallest such offset, the location is
\* the projected midpoint there and no later offset is evaluated; with no hit
\* the risk stays at the level of the current distance.
C2_FirstHitWins ==
  (RiskCall /\ BothLocated /\ CurrentD2 > CriticalD2 /\ ret.result.exc = "") =>
    LET r == ret.result.value
    IN  IF Hits = {}
        THEN /\ r.collision_risk = (IF CurrentD2 <= WarningD2 THEN "warning" ELSE "none")
             /\ r.estimated_time_to_collision = None
             /\ ret.result.evaluated = OffsetsUpTo(60)
        ELSE LET first == CHOOSE m \in Hits : \A h \in Hits : m <= h
             IN  /\ r.collision_risk = "predicted"
                 /\ r.estimated_time_to_collision = <<60 * first>>
                 /\ r.location = Midpoint(Projected1(first).value, Projected2(first).value)
                 /\ ret.result.evaluated = OffsetsUpTo(first)

\* C2 witness: the projections miss at 5 minutes and hit at 10 minutes and at
\* every later offset too; the collision is predicted in 600 seconds.
C2_Witness ==
  /\ RiskCall
  /\ BothLocated
  /\ CurrentD2 > CriticalD2
  /\ Hits = {10, 15, 30, 60}
  /\ ret.result.value.collision_risk = "predicted"
  /\ ret.result.value.estimated_time_to_collision = <<600>>

(***************************************************************************)
(* Properties of check_all_train_collisions.                               *)
(***************************************************************************)
AllCall == ret.op = "check_all_train_collisions"

RunningIds ==
  {trains[i].train_id : i \in {k \in 1..Len(trains) :
                                 trains[k].current_status = "in_service_running"}}

Calls == ret.result.calls

\* C3: over n running trains check_collision_risk is called exactly once for
\* every unordered pair of distinct running trains, n (n - 1) / 2 times in
\* all, never for a train with itself, never for both (a, b) and (b, a), and
\* never for a train that is not running.
C3_EachPairOnce ==
  AllCall =>
    /\ \A k \in 1..Len(Calls) :
         /\ Calls[k][1] # Calls[k][2]
         /\ Calls[k][1] \in RunningIds
         /\ Calls[k][2] \in RunningIds
    /\ \A k, l \in 1..Len(Calls) :
         k # l => /\ Calls[k] # Calls[l]
                  /\ Calls[k] # <<Calls[l][2], Calls[l][1]>>
    /\ \A a, b \in RunningIds :
         a # b => \E k \in 1..Len(Calls) : Calls[k] = <<a, b>> \/ Calls[k] = <<b, a>>
    /\ 2 * Len(Calls) = Cardinality(RunningIds) * (Cardinality(RunningIds) - 1)

\* C3 witness: three running trains, three calls.
C3_Witness ==
  /\ AllCall
  /\ Cardinality(RunningIds) = 3
  /\ Len(Calls) = 3

\* The assessment of the k-th call of the pass.
Assessment(k) == check_collision_risk(Calls[k][1], Calls[k][2], ret.now).value

\* The alerts the pass created.
NewAlerts == SubSeq(alerts, ret.alerts_before + 1, Len(alerts))

\* The number of alerts of the pass about the pair of the k-th call that are
\* addressed to the train train_id.
AlertsFor(k, train_id) ==
  Cardinality({a \in 1..Len(NewAlerts) :
                 /\ NewAlerts[a].recipient_ref = get_by_train_id(train_id)[1].oid
                 /\ NewAlerts[a].message.train1_id = Calls[k][1]
                 /\ NewAlerts[a].message.train2_id = Calls[k][2]})

\* C4: the pass returns exactly the assessments whose risk is not none; a
\* critical or predicted one has exactly one alert addressed to each of its
\* two trains, a warning or none one has no alert.  (AlertModel.create adds a
\* copy for the guest account to each; the copies are not addressed to a
\* train.)
C4_ReturnedAndAlerted ==
  AllCall =>
    LET listed == {k \in 1..Len(Calls) : Assessment(k).collision_risk # "none"}
        returned == ret.result.value
    IN  /\ ret.result.exc = ""
        /\ Len(returned) = Cardinality(listed)
        /\ \A k \in listed : \E n \in 1..Len(returned) : returned[n] = Assessment(k)
        /\ \A k \in 1..Len(Calls) :
             LET due == IF Assessment(k).collision_risk \in {"critical", "predicted"}
                        THEN 1 ELSE 0
             IN  /\ AlertsFor(k, Calls[k][1]) = due
                 /\ AlertsFor(k, Calls[k][2]) = due
        /\ \A a \in 1..Len(NewAlerts) :
             NewAlerts[a].recipient_ref # GUEST_RECIPIENT_ID =>
               \E k \in 1..Len(Calls) :
                 /\ NewAlerts[a].message.train1_id = Calls[k][1]
                 /\ NewAlerts[a].message.train2_id = Calls[k][2]

\* C4 witness: a pass over three trains with a critical, a warning and a
\* predicted pair; two alerts are addressed to trains for the critical and two
\* for the predicted pair.
C4_Witness ==
  /\ AllCall
  /\ Len(Calls) = 3
  /\ \E k \in 1..3 : Assessment(k).collision_risk = "critical"
  /\ \E k \in 1..3 : Assessment(k).collision_risk = "warning"
  /\ \E k \in 1..3 : Assessment(k).collision_risk = "predicted"
  /\ Len(ret.result.value) = 3
  /\ Cardinality({a \in 1..Len(NewAlerts) :
                    NewAlerts[a].recipient_ref # GUEST_RECIPIENT_ID}) = 4

(***************************************************************************)
(* Segment geometry: is_point_near_line (app/core/location.py) and         *)
(* min_distance_point_to_line (app/core/tracking.py).                      *)
(***************************************************************************)
\* The numerator of t, lines 41-42 and 415-416: the dot product of
\* point - line_start and line_end - line_start, taken on the coordinates.
projection_dot(point, line_start, line_end) ==
  (point[1] - line_start[1]) * (line_end[1] - line_start[1])
    + (point[2] - line_start[2]) * (line_end[2] - line_start[2])

\* "t < 0": the denominator is positive.
t_below_zero(point, line_start, line_end) ==
  projection_dot(point, line_start, line_end) < 0

\* "t > 1".  The numerator of t is a product of coordinates, in degrees, and
\* its denominator d_start_to_end ** 2 is in metres: with 100000 coordinate
\* units to the degree and one metre to the unit, t is the dot product of the
\* units divided by 100000 * 100000 * d_start_to_end ** 2.
t_above_one(point, line_start, line_end) ==
  LET dot == projection_dot(point, line_start, line_end)
      d_start_to_end == calculate_distance(line_start, line_end)
  IN  dot > 0 /\ ((dot - 1) \div 100000) \div 100000 >= d_start_to_end

\* calculate_distance(point, closest_point) for 0 <= t <= 1.  closest_point
\* is line_start + t (line_end - line_start) with the t above, which puts it
\* within 10^-10 of the way along the segment: the square of the distance is
\* that to line_start less 10^-10 (2 - 10^-10) dot^2 / d_start_to_end^2, a
\* fraction of one m^2 for every position within 70 km.  Squared distances
\* are carried rounded up to whole m^2, which decides every comparison with a
\* whole number of metres as the exact value does.
distance_to_closest_point(point, line_start, line_end) ==
  calculate_distance(point, line_start)

\* Mutant of is_point_near_line: "<" leaves a point at exactly max_distance
\* out.
is_point_near_line_strict(point, line_start, line_end, max_distance) ==
  LET d_point_to_start == calculate_distance(point, line_start)
      d_point_to_end == calculate_distance(point, line_end)
      d_start_to_end == calculate_distance(line_start, line_end)
  IN  IF d_point_to_start < Sq(max_distance) \/ d_point_to_end < Sq(max_distance)
      THEN TRUE
      ELSE IF d_start_to_end < 1 THEN d_point_to_start < Sq(max_distance)
      ELSE IF t_below_zero(point, line_start, line_end)
      THEN d_point_to_start < Sq(max_distance)
      ELSE IF t_above_one(point, line_start, line_end)
      THEN d_point_to_end < Sq(max_distance)
      ELSE distance_to_closest_point(point, line_start, line_end) < Sq(max_distance)

\* is_point_near_line; distances are squared, and so is max_distance in the
\* comparisons.
is_point_near_line(point, line_start, line_end, max_distance) ==
  LET d_point_to_start == calculate_distance(point, line_start)
      d_point_to_end == calculate_distance(point, line_end)
      d_start_to_end == calculate_distance(line_start, line_end)
  IN  IF d_point_to_start <= Sq(max_distance) \/ d_point_to_end <= Sq(max_distance)
      THEN TRUE
      ELSE IF d_start_to_end < 1 THEN d_point_to_start <= Sq(max_distance)
      ELSE IF t_below_zero(point, line_start, line_end)
      THEN d_point_to_start <= Sq(max_distance)
      ELSE IF t_above_one(point, line_start, line_end)
      THEN d_point_to_end <= Sq(max_distance)
      ELSE distance_to_closest_point(point, line_start, line_end) <= Sq(max_distance)

\* min_distance_point_to_line: the squared distance.
min_distance_point_to_line(point, line_start, line_end) ==
  LET d_point_to_start == calculate_distance(point, line_start)
      d_point_to_end == calculate_distance(point, line_end)
      d_start_to_end == calculate_distance(line_start, line_end)
  IN  IF d_start_to_end < 1 THEN d_point_to_start
      ELSE IF t_below_zero(point, line_start, line_end) THEN d_point_to_start
      ELSE IF t_above_one(point, line_start, line_end) THEN d_point_to_end
      ELSE distance_to_closest_point(point, line_start, line_end)

(***************************************************************************)
(* detect_route_deviations (app/core/tracking.py).                         *)
(***************************************************************************)
\* "min_distance > 3 * distance_threshold" and "> 2 * distance_threshold",
\* lines 383-388, on the squared distance.
deviation_severity(min_distance, distance_threshold) ==
  IF min_distance > Sq(3 * distance_threshold) THEN "critical"
  ELSE IF min_distance > Sq(2 * distance_threshold) THEN "high"
  ELSE "moderate"

\* Lines 342-377: the distances to the active segment and to the segments
\* before and after it, where they exist.  cp_idx is the 0-based index of the
\* code; checkpoints[cp_idx + 1] is its checkpoint.
segment_distances(location, checkpoints, cp_idx) ==
  {min_distance_point_to_line(location, checkpoints[cp_idx + 1].location,
                              checkpoints[cp_idx + 2].location)}
    \cup (IF cp_idx > 0
          THEN {min_distance_point_to_line(location, checkpoints[cp_idx].location,
                                           checkpoints[cp_idx + 1].location)}
          ELSE {})
    \cup (IF cp_idx + 2 < Len(checkpoints)
          THEN {min_distance_point_to_line(location, checkpoints[cp_idx + 2].location,
                                           checkpoints[cp_idx + 3].location)}
          ELSE {})

\* A segment end without coordinates cannot be subscripted by
\* calculate_distance: the active segment's end always, the ends of the
\* adjacent segments once a deviation is detected.
adjacent_unlocated(checkpoints, cp_idx) ==
  \/ cp_idx > 0 /\ checkpoints[cp_idx].location = None
  \/ cp_idx + 2 < Len(checkpoints) /\ checkpoints[cp_idx + 3].location = None

detect_route_deviations(train_id, distance_threshold, now) ==
  LET train == get_by_train_id(train_id)
      result == [train_id |-> train_id, deviation_detected |-> FALSE,
                 distance_from_route |-> None, location |-> None,
                 timestamp |-> now, nearest_checkpoint |-> None,
                 expected_segment |-> None, severity |-> "none"]
  IN  IF train = None \/ train[1].current_route_id = "" THEN Returns(result)
      ELSE
      LET latest_log == get_latest_by_train(train_id)
      IN  IF latest_log = None \/ latest_log[1].location = None THEN Returns(result)
          ELSE
          LET route == get_by_route_id(train[1].current_route_id)
          IN  IF route = None \/ Len(route[1].checkpoints) < 2 THEN Returns(result)
              ELSE
              LET location == latest_log[1].location
                  checkpoints == route[1].checkpoints
                  nearest == find_nearest_checkpoint(location, train[1].current_route_id)
                  cp_idx == nearest.index
                  found == [result EXCEPT !.nearest_checkpoint = nearest.checkpoint]
              IN  IF cp_idx = -1 THEN Returns(found)
                  ELSE IF cp_idx = Len(checkpoints) - 1 THEN Returns(found)
                  ELSE
                  LET segment_start == checkpoints[cp_idx + 1].location
                      segment_end == checkpoints[cp_idx + 2].location
                      expected == [found EXCEPT !.expected_segment = <<cp_idx, cp_idx + 1>>]
                  IN  IF segment_end = None THEN Raises("TypeError")
                      ELSE IF is_point_near_line(location, segment_start, segment_end,
                                                 distance_threshold)
                      THEN Returns(expected)
                      ELSE IF adjacent_unlocated(checkpoints, cp_idx)
                      THEN Raises("TypeError")
                      ELSE
                      LET distances == segment_distances(location, checkpoints, cp_idx)
                          min_distance == CHOOSE d \in distances : \A e \in distances : d <= e
                      IN  Returns([expected EXCEPT
                                     !.deviation_detected = TRUE,
                                     !.distance_from_route = <<min_distance>>,
                                     !.location = location,
                                     !.severity = deviation_severity(min_distance,
                                                                     distance_threshold)])

(***************************************************************************)
(* Deviation of one train: its route, its latest sample, the threshold.    *)
(***************************************************************************)
\* <<0, 10>> lies on the segment from <<0, 0>> to <<0, 20>>; the others are
\* 1.4, 2.8, 15, 16 and 25 m from the nearest checkpoint.
DeviationPoints == {<<0, 10>>, <<1, 1>>, <<28, 18>>, <<12, 9>>, <<0, -16>>, <<15, 0>>}

DeviationThresholds == {5, 10}

InitDeviation ==
  /\ alerts = <<>>
  /\ monitor = NotMonitoring
  /\ ret = NoCall
  /\ \/ /\ trains = <<Train("T1", IN_SERVICE_RUNNING, "R1")>>
        /\ \E cps \in GeoRoutes : routes = <<Route("R1", cps)>>
        /\ \E p \in DeviationPoints, decoy \in BOOLEAN :
             logs = (IF decoy THEN Decoys("T1") ELSE <<>>)
                      \o <<Log("T1", p, <<CHOOSE t \in SampleTimes : TRUE>>, FALSE)>>
     \/ InitIncomplete

DetectRouteDeviations ==
  \E distance_threshold \in DeviationThresholds, now \in SampleTimes :
    /\ ret' = [op |-> "detect_route_deviations", train_id |-> "T1",
               distance_threshold |-> distance_threshold,
               result |-> detect_route_deviations("T1", distance_threshold, now)]
    /\ UNCHANGED <<store, monitor>>

NextDeviation == DetectRouteDeviations

SpecDeviation == InitDeviation /\ [][NextDeviation]_vars

(***************************************************************************)
(* Properties of detect_route_deviations.                                  *)
(***************************************************************************)
DeviationCall == ret.op = "detect_route_deviations"

\* The train of the call has a route of at least two checkpoints and a latest
\* sample with a position.
DeviationEvaluable ==
  /\ RouteOfTrain(ret.train_id) # None
  /\ Len(RouteOfTrain(ret.train_id)[1].checkpoints) >= 2
  /\ get_latest_by_train(ret.train_id) # None
  /\ get_latest_by_train(ret.train_id)[1].location # None

DeviationCheckpoints == RouteOfTrain(ret.train_id)[1].checkpoints

DeviationPosition == get_latest_by_train(ret.train_id)[1].location

AllLocated(checkpoints) == \A k \in 1..Len(checkpoints) : checkpoints[k].location # None

\* The square of the distance from p to the segment from a to b, as the
\* rational [n, d]: to the nearer end when the foot of the perpendicular is
\* outside the segment, to the foot otherwise.
SegmentDistance2(p, a, b) ==
  LET dot == (p[1] - a[1]) * (b[1] - a[1]) + (p[2] - a[2]) * (b[2] - a[2])
      len2 == Sq(b[1] - a[1]) + Sq(b[2] - a[2])
      cross == (p[1] - a[1]) * (b[2] - a[2]) - (p[2] - a[2]) * (b[1] - a[1])
  IN  IF len2 = 0 \/ dot <= 0 THEN Rat(Sq(p[1] - a[1]) + Sq(p[2] - a[2]), 1)
      ELSE IF dot >= len2 THEN Rat(Sq(p[1] - b[1]) + Sq(p[2] - b[2]), 1)
      ELSE Rat(Sq(cross), len2)

RatLeq(x, y) == x.n * y.d <= y.n * x.d

\* The 1-based position of the nearest checkpoint of the call's train.
NearestPosition ==
  CHOOSE k \in 1..Len(DeviationCheckpoints) :
    IsNearest(DeviationPosition, DeviationCheckpoints, k)

\* C11: for an evaluable train detect_route_deviations reports a deviation
\* if and only if the nearest checkpoint i is not the last one and the
\* position is farther than the threshold from the segment from checkpoint i
\* to checkpoint i + 1.
C11_DeviationIffOffSegment ==
  (DeviationCall /\ DeviationEvaluable /\ AllLocated(DeviationCheckpoints)) =>
    LET i == NearestPosition
        checkpoints == DeviationCheckpoints
    IN  /\ ret.result.exc = ""
        /\ ret.result.value.deviation_detected <=>
             /\ i < Len(checkpoints)
             /\ ~RatLeq(SegmentDistance2(DeviationPosition, checkpoints[i].location,
                                         checkpoints[i + 1].location),
                        Rat(Sq(ret.distance_threshold), 1))

\* The segments the distance is taken over: the active one and its
\* neighbours, as pairs of positions.
NearbySegments(i, n) == {k \in {i - 1, i, i + 1} : k >= 1 /\ k + 1 <= n}

\* C12: a detected deviation reports as distance_from_route the least of the
\* distances from the position to the active, the previous and the next
\* segment, with severity critical above 3 x threshold, high above 2 x
\* threshold and moderate otherwise; severity is none exactly when no
\* deviation is detected.
C12_DistanceAndSeverity ==
  (DeviationCall /\ DeviationEvaluable /\ AllLocated(DeviationCheckpoints)
     /\ ret.result.exc = "") =>
    LET r == ret.result.value
        checkpoints == DeviationCheckpoints
        Distance(k) == SegmentDistance2(DeviationPosition, checkpoints[k].location,
                                        checkpoints[k + 1].location)
        segments == NearbySegments(NearestPosition, Len(checkpoints))
    IN  IF r.deviation_detected
        THEN /\ r.distance_from_route # None
             /\ \E k \in segments :
                  /\ Distance(k) = Rat(r.distance_from_route[1] * Distance(k).d, Distance(k).d)
                  /\ \A l \in segments : RatLeq(Distance(k), Distance(l))
             /\ r.severity = deviation_severity(r.distance_from_route[1],
                                                ret.distance_threshold)
        ELSE r.severity = "none"

\* The cases that cannot be evaluated: no train, no route on the train, no
\* such route, fewer than two checkpoints, no latest sample with a position.
DeviationNotEvaluable ==
  \/ get_by_train_id(ret.train_id) = None
  \/ RouteOfTrain(ret.train_id) = None
  \/ Len(RouteOfTrain(ret.train_id)[1].checkpoints) < 2
  \/ get_latest_by_train(ret.train_id) = None
  \/ get_latest_by_train(ret.train_id)[1].location = None

\* C13: detect_route_deviations never raises, and in the cases that cannot be
\* evaluated it returns deviation_detected = false and severity none together
\* with a reason that explains which part is missing.
C13_NotEvaluableExplained ==
  DeviationCall =>
    /\ ret.result.exc = ""
    /\ DeviationNotEvaluable =>
         /\ ret.result.value.deviation_detected = FALSE
         /\ ret.result.value.severity = "none"
         /\ "reason" \in DOMAIN ret.result.value

(***************************************************************************)
(* get_train_position and is_train_on_schedule (app/core/tracking.py).     *)
(***************************************************************************)
\* doc.get(key) of a stored document: None when the key is missing.
get(doc, key) == IF key \in DOMAIN doc THEN doc[key] ELSE None

get_train_position(train_id, now) ==
  With(<<get_latest_by_train(train_id), get_by_train_id(train_id)>>, LAMBDA found :
  LET latest_log == found[1]
      train == found[2]
      result == [train_id |-> train_id, timestamp |-> now,
                 has_valid_position |-> FALSE, location |-> None,
                 last_update |-> None,
                 status |-> IF train = None THEN None ELSE <<train[1].current_status>>,
                 route_id |-> IF train = None THEN "" ELSE train[1].current_route_id,
                 nearest_checkpoint |-> None, checkpoint_index |-> -1,
                 next_checkpoint |-> None]
  IN  IF latest_log = None \/ train = None THEN result
      ELSE IF latest_log[1].location = None THEN result
      ELSE
      LET located == [result EXCEPT !.has_valid_position = TRUE,
                                    !.location = latest_log[1].location,
                                    !.last_update = latest_log[1].timestamp]
      IN  IF train[1].current_route_id = "" THEN located
          ELSE
          LET nearest == find_nearest_checkpoint(latest_log[1].location,
                                                 train[1].current_route_id)
              cp_idx == nearest.index
              route == get_by_route_id(train[1].current_route_id)
              placed == [located EXCEPT !.nearest_checkpoint = nearest.checkpoint,
                                        !.checkpoint_index = cp_idx]
          IN  IF /\ route # None
                 /\ route[1].checkpoints # <<>>
                 /\ cp_idx < Len(route[1].checkpoints) - 1
              THEN [placed EXCEPT !.next_checkpoint = <<route[1].checkpoints[cp_idx + 2]>>]
              ELSE placed)

\* The loop of lines 112-117 from the 1-based position i on: the 0-based
\* index of the expected checkpoint, -1 when the loop sets none.
RECURSIVE expected_scan(_, _, _)
expected_scan(checkpoints, elapsed_seconds, i) ==
  IF i > Len(checkpoints) THEN -1
  ELSE IF elapsed_seconds < checkpoints[i].interval
  THEN (IF i > 1 THEN i - 2 ELSE -1)
  ELSE expected_scan(checkpoints, elapsed_seconds, i + 1)

\* Lines 109-122: the loop, then the last checkpoint when the loop set none.
expected_cp_idx(checkpoints, elapsed_seconds) ==
  LET scanned == expected_scan(checkpoints, elapsed_seconds, 1)
  IN  IF scanned = -1 /\ checkpoints # <<>> THEN Len(checkpoints) - 1 ELSE scanned

\* checkpoints[k] of a Python list: a negative k counts from the end.
list_item(checkpoints, k) ==
  IF k < 0 THEN checkpoints[Len(checkpoints) + k + 1] ELSE checkpoints[k + 1]

\* The loop of lines 134-135 over range(i, stop).
RECURSIVE delay_sum(_, _, _)
delay_sum(checkpoints, i, stop) ==
  IF i >= stop THEN 0
  ELSE list_item(checkpoints, i).interval - list_item(checkpoints, i - 1).interval
         + delay_sum(checkpoints, i + 1, stop)

\* Mutant of within_tolerance: a delay equal to the tolerance is late.
within_tolerance_strict(delay, tolerance_seconds) == delay < tolerance_seconds

\* "delay <= tolerance_seconds", line 138.
within_tolerance(delay, tolerance_seconds) == delay <= tolerance_seconds

is_train_on_schedule(train_id, tolerance_seconds, now) ==
  With(get_train_position(train_id, now), LAMBDA position_info :
  LET result == [train_id |-> train_id, on_schedule |-> FALSE,
                 delay_seconds |-> None, scheduled_checkpoint |-> None,
                 actual_checkpoint |-> position_info.nearest_checkpoint,
                 location |-> position_info.location]
      train == get_by_train_id(train_id)
  IN  IF ~position_info.has_valid_position \/ position_info.route_id = "" THEN result
      ELSE IF train = None \/ train[1].current_route_id = "" THEN result
      ELSE
      LET route == get_by_route_id(train[1].current_route_id)
      IN  IF \/ route = None
             \/ get(route[1], "start_time") = None
             \/ route[1].checkpoints = <<>>
          THEN result
          ELSE
          LET checkpoints == route[1].checkpoints
              elapsed_seconds == now - route[1].start_time[1]
              expected == expected_cp_idx(checkpoints, elapsed_seconds)
              scheduled == [result EXCEPT
                              !.scheduled_checkpoint = <<checkpoints[expected + 1]>>]
              actual_cp_idx == position_info.checkpoint_index
          IN  IF actual_cp_idx < expected
              THEN LET delay == delay_sum(checkpoints, actual_cp_idx + 1, expected + 1)
                   IN  [scheduled EXCEPT
                          !.delay_seconds = <<delay>>,
                          !.on_schedule = within_tolerance(delay, tolerance_seconds)]
              ELSE [scheduled EXCEPT !.delay_seconds = <<0>>, !.on_schedule = TRUE])

(***************************************************************************)
(* Schedule adherence of one train on a route with a start instant.        *)
(***************************************************************************)
ScheduledRoute(route_id, checkpoints, start_time) ==
  [route_id |-> route_id, checkpoints |-> checkpoints, start_time |-> start_time]

\* The route starts at 1200 or has no start instant.
StartTimes == {None, <<1200>>}

\* Before the start, at it, inside the first interval, at the second and the
\* third offset, and beyond the last.
ScheduleNows == {600, 1200, 1500, 1800, 2400, 3000}

ToleranceValues == {300, 600}

InitSchedule ==
  /\ alerts = <<>>
  /\ monitor = NotMonitoring
  /\ ret = NoCall
  /\ \/ /\ trains = <<Train("T1", IN_SERVICE_RUNNING, "R1")>>
        /\ \E cps \in GeoRoutes, start_time \in StartTimes :
             routes = <<ScheduledRoute("R1", cps, start_time)>>
        /\ \E p \in SamplePoints :
             logs = <<Log("T1", p, <<CHOOSE t \in SampleTimes : TRUE>>, FALSE)>>
     \/ InitIncomplete

IsTrainOnSchedule ==
  \E tolerance_seconds \in ToleranceValues, now \in ScheduleNows :
    /\ ret' = [op |-> "is_train_on_schedule", train_id |-> "T1",
               tolerance_seconds |-> tolerance_seconds, now |-> now,
               result |-> is_train_on_schedule("T1", tolerance_seconds, now)]
    /\ UNCHANGED <<store, monitor>>

NextSchedule == IsTrainOnSchedule

SpecSchedule == InitSchedule /\ [][NextSchedule]_vars

(***************************************************************************)
(* Properties of is_train_on_schedule.                                     *)
(***************************************************************************)
ScheduleCall == ret.op = "is_train_on_schedule"

\* The call gets as far as the expected checkpoint: the train has a position
\* and a route with a start instant and checkpoints.
ScheduleEvaluated ==
  /\ get_latest_by_train(ret.train_id) # None
  /\ get_latest_by_train(ret.train_id)[1].location # None
  /\ RouteOfTrain(ret.train_id) # None
  /\ get(RouteOfTrain(ret.train_id)[1], "start_time") # None
  /\ RouteOfTrain(ret.train_id)[1].checkpoints # <<>>

ScheduleCheckpoints == RouteOfTrain(ret.train_id)[1].checkpoints

Elapsed == ret.now - RouteOfTrain(ret.train_id)[1].start_time[1]

\* C15: with elapsed = now - route start, the expected checkpoint is the one
\* whose interval is the largest value <= elapsed, for every elapsed value:
\* its interval is not above elapsed, no other interval lies between the two,
\* and one is expected whenever some interval is <= elapsed.
C15_ExpectedCheckpoint ==
  (ScheduleCall /\ ScheduleEvaluated) =>
    LET scheduled == ret.result.scheduled_checkpoint
        reached == {k \in 1..Len(ScheduleCheckpoints) :
                      ScheduleCheckpoints[k].interval <= Elapsed}
    IN  /\ reached # {} => scheduled # None
        /\ scheduled # None =>
             /\ scheduled[1].interval <= Elapsed
             /\ \A k \in reached : ScheduleCheckpoints[k].interval <= scheduled[1].interval

\* The index of the nearest checkpoint of the train of the call, -1 if none.
ActualIndex == get_train_position(ret.train_id, ret.now).checkpoint_index

ExpectedIndex == expected_cp_idx(ScheduleCheckpoints, Elapsed)

\* C16: when the index of the nearest checkpoint is below the expected index,
\* delay_seconds is interval[expected] - interval[actual] and on_schedule is
\* delay <= tolerance; when it is at or beyond the expected index,
\* delay_seconds is 0 and on_schedule is true.
C16_DelayFromIntervals ==
  (ScheduleCall /\ ScheduleEvaluated /\ ActualIndex >= 0) =>
    LET r == ret.result
        delay == ScheduleCheckpoints[ExpectedIndex + 1].interval
                   - ScheduleCheckpoints[ActualIndex + 1].interval
    IN  IF ActualIndex < ExpectedIndex
        THEN /\ r.delay_seconds = <<delay>>
             /\ r.on_schedule = (delay <= ret.tolerance_seconds)
        ELSE /\ r.delay_seconds = <<0>>
             /\ r.on_schedule = TRUE

\* C16 witness: after the start, the train is two checkpoints behind; the
\* delay is the sum of two different intervals and exceeds the tolerance.
C16_Witness ==
  /\ ScheduleCall
  /\ ScheduleEvaluated
  /\ Elapsed >= 0
  /\ ActualIndex = 0
  /\ ExpectedIndex = 2
  /\ ScheduleCheckpoints[2].interval > 0
  /\ ScheduleCheckpoints[3].interval > ScheduleCheckpoints[2].interval
  /\ ret.result.delay_seconds = <<ScheduleCheckpoints[3].interval>>
  /\ ret.result.on_schedule = FALSE

(***************************************************************************)
(* The two segment functions on a grid of points and segments.             *)
(***************************************************************************)
MaxCoord == 4

Grid == (0..MaxCoord) \X (0..MaxCoord)

SegmentStarts == {<<0, 0>>, <<2, 2>>}

MaxDistances == {1, 2}

InitSegment ==
  /\ trains = <<>>
  /\ routes = <<>>
  /\ logs = <<>>
  /\ alerts = <<>>
  /\ monitor = NotMonitoring
  /\ \E point \in Grid, line_start \in SegmentStarts, line_end \in Grid,
        max_distance \in MaxDistances :
       ret = [op |-> "input", point |-> point, line_start |-> line_start,
              line_end |-> line_end, max_distance |-> max_distance, result |-> None]

IsPointNearLine ==
  /\ ret' = [ret EXCEPT
               !.op = "is_point_near_line",
               !.result = <<is_point_near_line(ret.point, ret.line_start,
                                               ret.line_end, ret.max_distance)>>]
  /\ UNCHANGED <<store, monitor>>

MinDistancePointToLine ==
  /\ ret' = [ret EXCEPT
               !.op = "min_distance_point_to_line",
               !.result = <<min_distance_point_to_line(ret.point, ret.line_start,
                                                       ret.line_end)>>]
  /\ UNCHANGED <<store, monitor>>

NextSegment == IsPointNearLine \/ MinDistancePointToLine

SpecSegment == InitSegment /\ [][NextSegment]_vars

\* C14: is_point_near_line(p, a, b, maxDistance) is true exactly when
\* min_distance_point_to_line(p, a, b) <= maxDistance, for every point,
\* segment and maxDistance.
C14_NearIffWithinDistance ==
  ret.op = "is_point_near_line" =>
    (ret.result[1] <=>
       min_distance_point_to_line(ret.point, ret.line_start, ret.line_end)
         <= Sq(ret.max_distance))

(***************************************************************************)
(* app/services/alert_service.py                                           *)
(***************************************************************************)
\* AlertService.create_system_alert on the alert collection coll: no alert
\* for a recipient that is no train; otherwise one from the system account to
\* the train's document id (and the guest copy of AlertModel.create).
create_system_alert(coll, recipient_id, message, location, now) ==
  LET train == get_by_train_id(recipient_id)
  IN  IF train = None THEN [success |-> FALSE, alerts |-> coll]
      ELSE [success |-> TRUE,
            alerts |-> AlertModel_create(coll,
                         [sender_ref |-> SYSTEM_SENDER_ID,
                          recipient_ref |-> train[1].oid,
                          message |-> message, location |-> location,
                          timestamp |-> now])]

(***************************************************************************)
(* app/tasks/monitor.py: the monitoring tasks.  Each task returns          *)
(* [value, alerts, exc]: what it returns, the alert collection after it,   *)
(* and the exception its handler caught and logged ("" when none).  A      *)
(* store that is unavailable fails the task's first query.                 *)
(***************************************************************************)
distance_threshold_default == 100

tolerance_seconds_default == 300

significant_delay_seconds == 300

\* A stored coordinate pair as the floats round_coordinates takes.
as_floats(location) ==
  IF location = None THEN None ELSE <<Rat(location[1], 1), Rat(location[2], 1)>>

\* int(x) of a distance whose square is squared: the whole metres.
int_metres(squared) == CHOOSE k \in 0..squared : k * k <= squared /\ squared < (k + 1) * (k + 1)

\* monitor_train_collisions: the risks check_all_train_collisions lists, or
\* [] when it raised; alerts created before the exception stay.
monitor_train_collisions(coll, now, store_error) ==
  IF store_error THEN [value |-> <<>>, alerts |-> coll, exc |-> "PyMongoError"]
  ELSE With(check_all_train_collisions(coll, now), LAMBDA checked :
         [value |-> IF checked.exc # "" THEN <<>> ELSE checked.collision_risks,
          alerts |-> checked.alerts, exc |-> checked.exc])

\* The message of lines 75-80, by its parts.
deviation_message(train_id, deviation_assessment) ==
  [text |-> IF deviation_assessment.severity = "critical"
            THEN "CRITICAL: severely deviated from its route"
            ELSE IF deviation_assessment.severity = "high"
            THEN "HIGH ALERT: significantly deviated from its route"
            ELSE "WARNING: moderately deviated from its route",
   train_id |-> train_id,
   distance |-> int_metres(deviation_assessment.distance_from_route[1])]

\* The body of the loop of lines 65-90 for one train, with the assessment
\* detect_route_deviations gave: the accumulator after it.
deviation_step(train_id, deviation_assessment, now, acc) ==
  IF deviation_assessment.exc # "" THEN [acc EXCEPT !.exc = deviation_assessment.exc]
  ELSE IF ~deviation_assessment.value.deviation_detected THEN acc
  ELSE
  LET listed == [acc EXCEPT !.deviations = Append(acc.deviations,
                                                  deviation_assessment.value)]
  IN  IF deviation_assessment.value.severity \in {"moderate", "high", "critical"}
      THEN [listed EXCEPT
              !.alerts = create_system_alert(
                           listed.alerts, train_id,
                           deviation_message(train_id, deviation_assessment.value),
                           as_floats(deviation_assessment.value.location), now).alerts]
      ELSE listed

\* The loop of lines 65-90 from the i-th active train on; an exception ends it.
RECURSIVE deviation_scan(_, _, _, _)
deviation_scan(active_trains, i, now, acc) ==
  IF i > Len(active_trains) THEN acc
  ELSE
  LET train_id == active_trains[i].train_id
      after == {deviation_step(train_id, deviation_assessment, now, before) :
                  deviation_assessment \in
                    {detect_route_deviations(train_id, distance_threshold_default, now)},
                  before \in {acc}}
  IN  CHOOSE done \in {IF next.exc # "" THEN next
                       ELSE deviation_scan(active_trains, i + 1, now, next) :
                       next \in after} : TRUE

\* monitor_train_deviations: one handler around the whole loop (lines 62-98)
\* returns [] for any exception; alerts created before it stay.
monitor_train_deviations(coll, now, store_error) ==
  IF store_error THEN [value |-> <<>>, alerts |-> coll, exc |-> "PyMongoError"]
  ELSE With(deviation_scan(get_active_trains, 1, now,
                           [deviations |-> <<>>, alerts |-> coll, exc |-> ""]),
            LAMBDA done :
              [value |-> IF done.exc # "" THEN <<>> ELSE done.deviations,
               alerts |-> done.alerts, exc |-> done.exc])

\* "not on_schedule and delay_seconds and delay_seconds > 300", line 122.
significantly_delayed(schedule_info) ==
  /\ ~schedule_info.on_schedule
  /\ schedule_info.delay_seconds # None
  /\ schedule_info.delay_seconds[1] # 0
  /\ schedule_info.delay_seconds[1] > significant_delay_seconds

\* The message of lines 123-125: int(delay_seconds / 60) minutes.
schedule_message(train_id, schedule_info) ==
  [text |-> "Schedule alert: running behind schedule", train_id |-> train_id,
   delay_minutes |-> schedule_info.delay_seconds[1] \div 60]

\* The body of the loop of lines 117-135 for one train.
schedule_step(train_id, schedule_info, now, acc) ==
  LET listed == [acc EXCEPT !.schedule_statuses = Append(acc.schedule_statuses,
                                                         schedule_info)]
  IN  IF significantly_delayed(schedule_info)
      THEN [listed EXCEPT
              !.alerts = create_system_alert(listed.alerts, train_id,
                                             schedule_message(train_id, schedule_info),
                                             as_floats(schedule_info.location),
                                             now).alerts]
      ELSE listed

RECURSIVE schedule_scan(_, _, _, _)
schedule_scan(active_trains, i, now, acc) ==
  IF i > Len(active_trains) THEN acc
  ELSE
  LET train_id == active_trains[i].train_id
      after == {schedule_step(train_id, schedule_info, now, before) :
                  schedule_info \in
                    {is_train_on_schedule(train_id, tolerance_seconds_default, now)},
                  before \in {acc}}
  IN  CHOOSE done \in {schedule_scan(active_trains, i + 1, now, next) :
                       next \in after} : TRUE

\* monitor_train_schedules, lines 100-146.
monitor_train_schedules(coll, now, store_error) ==
  IF store_error THEN [value |-> <<>>, alerts |-> coll, exc |-> "PyMongoError"]
  ELSE With(schedule_scan(get_active_trains, 1, now,
                          [schedule_statuses |-> <<>>, alerts |-> coll]),
            LAMBDA done :
              [value |-> done.schedule_statuses, alerts |-> done.alerts, exc |-> ""])

\* get_active_trains_locations (app/core/tracking.py): the active trains
\* that have a valid position, in order.
RECURSIVE locations_scan(_, _, _)
locations_scan(active_trains, i, now) ==
  IF i > Len(active_trains) THEN <<>>
  ELSE With(<<active_trains[i], get_train_position(active_trains[i].train_id, now)>>,
            LAMBDA seen :
              LET train == seen[1]
                  position_info == seen[2]
              IN  IF position_info.has_valid_position
                  THEN <<[train_id |-> train.train_id, name |-> get(train, "name"),
                          location |-> position_info.location,
                          last_update |-> position_info.last_update,
                          status |-> train.current_status,
                          route_id |-> train.current_route_id,
                          nearest_station |-> None]>>
                  ELSE <<>>)
         \o locations_scan(active_trains, i + 1, now)

get_active_trains_locations(now) == locations_scan(get_active_trains, 1, now)

\* count_documents({"timestamp": {"$gte": since}}) on the collection coll.
count_since(coll, since) ==
  Cardinality({i \in 1..Len(coll) : coll[i].timestamp # None
                                    /\ coll[i].timestamp[1] >= since})

\* "warning" with collision risks, "error" with active trains and no sample
\* in the last hour, lines 225-232.
system_health(collision_risks, active_train_count, last_hour_logs) ==
  IF active_train_count > 0 /\ last_hour_logs = 0 THEN "error"
  ELSE IF collision_risks # <<>> THEN "warning"
  ELSE "normal"

\* generate_system_status_report, lines 170-241: it runs
\* check_all_train_collisions itself (line 209), alerts included.
generate_system_status_report(coll, now, store_error) ==
  LET failed(exc) == [value |-> [timestamp |-> now, error |-> exc,
                                 system_health |-> "unknown"],
                      alerts |-> coll, exc |-> exc]
  IN  IF store_error THEN failed("PyMongoError")
      ELSE
      With(<<Len(get_active_trains), count_since(logs, now - 3600),
             check_all_train_collisions(coll, now)>>, LAMBDA seen :
      LET active_train_count == seen[1]
          last_hour_logs == seen[2]
          checked == seen[3]
      IN  IF checked.exc # "" THEN [failed(checked.exc) EXCEPT !.alerts = checked.alerts]
          ELSE [value |-> [timestamp |-> now,
                           total_trains |-> Len(trains),
                           total_routes |-> Len(routes),
                           active_trains |-> active_train_count,
                           logs_last_hour |-> last_hour_logs,
                           logs_last_day |-> count_since(logs, now - 86400),
                           open_alerts |-> Cardinality({i \in 1..Len(coll) :
                                             coll[i].timestamp >= now - 86400}),
                           active_train_locations |-> get_active_trains_locations(now),
                           collision_risks |-> checked.collision_risks,
                           system_health |-> system_health(checked.collision_risks,
                                                           active_train_count,
                                                           last_hour_logs)],
                alerts |-> checked.alerts, exc |-> ""])

(***************************************************************************)
(* start_monitoring (app/tasks/monitor.py) as the task main.py creates,    *)
(* with the stop event of app/config.py.  monitor.pc is the position of    *)
(* the coroutine: "loop" at the head of the while loop, the name of a task *)
(* of run_all_monitoring_tasks that is about to run, "wait" in the wait    *)
(* for the stop event, "stopped" after the break, "cancelled" when the     *)
(* task was cancelled.                                                     *)
(***************************************************************************)
MonitoringTasks ==
  <<"monitor_train_collisions", "monitor_train_deviations",
    "monitor_train_schedules", "generate_system_status_report">>

Started == [pc |-> "loop", stop_event |-> FALSE]

\* Mutant of stop_requested: the event is never looked at.
stop_ignored(stop_event) == FALSE

\* "stop_event and stop_event.is_set()", lines 279 and 289.
stop_requested(stop_event) == stop_event

\* Mutant of after_task: an exception caught in a task ends the pass.
after_task_abort(task, exc) ==
  IF exc # "" THEN "wait"
  ELSE LET k == CHOOSE i \in 1..Len(MonitoringTasks) : MonitoringTasks[i] = task
       IN  IF k = Len(MonitoringTasks) THEN "wait" ELSE MonitoringTasks[k + 1]

\* run_all_monitoring_tasks, lines 249-265: every task returns, whatever it
\* caught, and the next one is awaited; after the last, start_monitoring
\* waits.
after_task(task, exc) ==
  LET k == CHOOSE i \in 1..Len(MonitoringTasks) : MonitoringTasks[i] = task
  IN  IF k = Len(MonitoringTasks) THEN "wait" ELSE MonitoringTasks[k + 1]

\* Instants a task reads the clock at.
MonitorNows == {3600}

MaxStoredAlerts == 6

\* One task of the pass has run with the given outcome.  ret keeps the
\* samples and the alerts the task found in the store.
TaskDone(task, now, store_error, outcome) ==
  /\ monitor.pc = task
  /\ Len(alerts) < MaxStoredAlerts
  /\ \E done \in {outcome} :
       /\ alerts' = done.alerts
       /\ ret' = [op |-> task, now |-> now, store_error |-> store_error,
                  logs_read |-> logs, alerts_before |-> alerts,
                  result |-> done.value, exc |-> done.exc]
       /\ monitor' = [monitor EXCEPT !.pc = after_task(task, done.exc)]
  /\ UNCHANGED <<trains, routes, logs>>

\* Lines 279-281 and 283: the head of the loop.
LoopHead ==
  /\ monitor.pc = "loop"
  /\ monitor' = [monitor EXCEPT !.pc = IF stop_requested(monitor.stop_event)
                                       THEN "stopped"
                                       ELSE MonitoringTasks[1]]
  /\ UNCHANGED <<store, ret>>

MonitorTrainCollisions ==
  \E now \in MonitorNows, store_error \in BOOLEAN :
    TaskDone("monitor_train_collisions", now, store_error,
             monitor_train_collisions(alerts, now, store_error))

MonitorTrainDeviations ==
  \E now \in MonitorNows, store_error \in BOOLEAN :
    TaskDone("monitor_train_deviations", now, store_error,
             monitor_train_deviations(alerts, now, store_error))

MonitorTrainSchedules ==
  \E now \in MonitorNows, store_error \in BOOLEAN :
    TaskDone("monitor_train_schedules", now, store_error,
             monitor_train_schedules(alerts, now, store_error))

GenerateSystemStatusReport ==
  \E now \in MonitorNows, store_error \in BOOLEAN :
    TaskDone("generate_system_status_report", now, store_error,
             generate_system_status_report(alerts, now, store_error))

\* Lines 286-294: wait_for(stop_event.wait(), timeout) runs into its timeout
\* while the event stays unset.
WaitTimeout ==
  /\ monitor.pc = "wait"
  /\ ~stop_requested(monitor.stop_event)
  /\ monitor' = [monitor EXCEPT !.pc = "loop"]
  /\ UNCHANGED <<store, ret>>

\* Lines 288-291: the event is set, the wait returns and the loop breaks.
WaitStopped ==
  /\ monitor.pc = "wait"
  /\ stop_requested(monitor.stop_event)
  /\ monitor' = [monitor EXCEPT !.pc = "stopped"]
  /\ UNCHANGED <<store, ret>>

Running == monitor.pc \notin {"not_started", "stopped", "cancelled"}

\* shutdown_db_client (app/main.py), line 135: monitor_stop_event.set().
ShutdownSetsStop ==
  /\ Running
  /\ ~monitor.stop_event
  /\ monitor' = [monitor EXCEPT !.stop_event = TRUE]
  /\ ret' = [op |-> "shutdown_db_client", pc |-> monitor.pc]
  /\ UNCHANGED store

\* shutdown_db_client, lines 136-141: wait_for(monitoring_task, timeout=5.0)
\* cancels the task when it has not ended in time; CancelledError is no
\* Exception, no handler of the tasks or of the loop catches it.  Only a
\* pass can outlast the timeout: at the head of the loop and in the wait the
\* set event ends the coroutine without another query.
ShutdownCancels ==
  /\ \E k \in 1..Len(MonitoringTasks) : monitor.pc = MonitoringTasks[k]
  /\ monitor.stop_event
  /\ monitor' = [monitor EXCEPT !.pc = "cancelled"]
  /\ ret' = [op |-> "cancel", pc |-> monitor.pc]
  /\ UNCHANGED store

(***************************************************************************)
(* Traffic beside the monitor: a position sample is stored.                *)
(***************************************************************************)
\* LogOperations.create (app/models/log.py) on the collection coll: the
\* location goes through round_coordinates.
LogOperations_create(coll, log_data) ==
  Append(coll, IF get(log_data, "location") = None THEN log_data
               ELSE [log_data EXCEPT
                       !.location = round_coordinates(as_floats(log_data.location))])

MaxLogs == 3

\* Positions as they are sent: stored as <<0, 10>> and <<150, 0>>.
SentPositions == {<<10, 0>>, <<0, 150>>}

SentTimes == {3300, 3500}

CreateLog ==
  /\ Len(logs) < MaxLogs
  /\ \E train_id \in {"T1", "T2"}, location \in SentPositions, t \in SentTimes :
       logs' = LogOperations_create(logs, Log(train_id, location, <<t>>, FALSE))
  /\ UNCHANGED <<trains, routes, alerts, ret, monitor>>

(***************************************************************************)
(* The fleets the monitor runs on.  R1 and R2 are parallel routes 500 m    *)
(* apart; RM has a checkpoint without coordinates.                         *)
(***************************************************************************)
MonitoredRoutes(start_time) ==
  <<Route("R1", <<Checkpoint(<<0, 0>>, 0, NoTag), Checkpoint(<<0, 1000>>, 600, NoTag)>>),
    ScheduledRoute("R2", <<Checkpoint(<<500, 0>>, 0, NoTag),
                           Checkpoint(<<500, 1000>>, 600, NoTag)>>, start_time),
    Route("RM", <<Checkpoint(<<0, 0>>, 0, NoTag), Checkpoint(None, 600, NoTag)>>)>>

\* T1 is near the start of R1, or 150 m or 350 m beside it; T2 is near the
\* start of R2 or 150 m beside it.
InitMonitoring ==
  /\ alerts = <<>>
  /\ ret = NoCall
  /\ monitor = Started
  /\ \E start_time \in {None, <<0>>} : routes = MonitoredRoutes(start_time)
  /\ \E r1 \in {"R1", "RM"}, r2 \in {"R1", "R2", "RM"} :
       trains = <<Train("T1", IN_SERVICE_RUNNING, r1), Train("T2", IN_SERVICE_RUNNING, r2)>>
  /\ \E p1 \in {<<0, 10>>, <<150, 0>>, <<350, 0>>}, p2 \in {<<500, 40>>, <<650, 0>>} :
       logs = <<Log("T1", p1, <<3000>>, FALSE), Log("T2", p2, <<3000>>, FALSE)>>

LoopStep ==
  \/ LoopHead
  \/ MonitorTrainCollisions
  \/ MonitorTrainDeviations
  \/ MonitorTrainSchedules
  \/ GenerateSystemStatusReport
  \/ WaitTimeout
  \/ WaitStopped

NextLoop == LoopStep \/ ShutdownSetsStop \/ ShutdownCancels

NextMonitoring == NextLoop \/ CreateLog

SpecMonitoring == InitMonitoring /\ [][NextMonitoring]_vars

\* A fleet that gives the passes nothing to alert: one train at most is
\* running, near the start of its route, and no route has a start instant.
\* On RM detect_route_deviations raises.
InitQuiet ==
  /\ alerts = <<>>
  /\ ret = NoCall
  /\ monitor = Started
  /\ routes = MonitoredRoutes(None)
  /\ \E r1 \in {"R1", "RM"}, r2 \in {"R2", "RM"},
        s1 \in TRAIN_STATUS, s2 \in TRAIN_STATUS \ {IN_SERVICE_RUNNING} :
       trains = <<Train("T1", s1, r1), Train("T2", s2, r2)>>
  /\ logs = <<Log("T1", <<0, 10>>, <<3000>>, FALSE), Log("T2", <<500, 40>>, <<3000>>, FALSE)>>

\* The event loop runs a coroutine that is ready, every store query returns
\* or raises, and the wait ends with its timeout: the loop's own steps are
\* weakly fair.  Shutdown is not.
SpecLoopFair == InitQuiet /\ [][NextLoop]_vars /\ WF_vars(LoopStep)

(***************************************************************************)
(* Properties of the monitoring passes.                                    *)
(***************************************************************************)
Range(seq) == {seq[i] : i \in 1..Len(seq)}

\* The alerts the task recorded in ret has added.
TaskAlerts == SubSeq(alerts, Len(ret.alerts_before) + 1, Len(alerts))

DeviationTexts ==
  {"CRITICAL: severely deviated from its route",
   "HIGH ALERT: significantly deviated from its route",
   "WARNING: moderately deviated from its route"}

\* The task has put a deviation alert for the train in the store.
DeviationAlerted(train) ==
  \E k \in 1..Len(TaskAlerts) :
    /\ TaskAlerts[k].recipient_ref = train.oid
    /\ TaskAlerts[k].message.text \in DeviationTexts

\* The findings of the pass recorded in ret, on the store it ran on: every
\* active train, and every pair of them, whose own evaluation does not fail
\* has its finding returned, and its deviation alerted.
PassFindings ==
  LET active_trains == get_active_trains
  IN  /\ (ret.op = "monitor_train_deviations" /\ ~ret.store_error) =>
           \A i \in 1..Len(active_trains) :
             LET assessment == detect_route_deviations(active_trains[i].train_id,
                                                       distance_threshold_default, ret.now)
             IN  (assessment.exc = "" /\ assessment.value.deviation_detected) =>
                   /\ assessment.value \in Range(ret.result)
                   /\ DeviationAlerted(active_trains[i])
      /\ (ret.op = "monitor_train_collisions" /\ ~ret.store_error) =>
           \A i, j \in 1..Len(active_trains) :
             LET risk == check_collision_risk(active_trains[i].train_id,
                                              active_trains[j].train_id, ret.now)
             IN  (i < j /\ risk.exc = "" /\ risk.value.collision_risk # "none") =>
                   risk.value \in Range(ret.result)
      /\ (ret.op = "monitor_train_schedules" /\ ~ret.store_error) =>
           \A i \in 1..Len(active_trains) :
             is_train_on_schedule(active_trains[i].train_id,
                                  tolerance_seconds_default, ret.now) \in Range(ret.result)

\* No sample has been stored since the task recorded in ret read them.
TaskStoreKept == ret.op \in Range(MonitoringTasks) /\ ret.logs_read = logs

\* C17: when a task of the pass has run, a failure at one train or pair has
\* not kept the pass from the others: each finding that can be made is
\* returned, and each deviation found is alerted.
C17_PassContinuesAfterFailure == TaskStoreKept => PassFindings

\* The texts of the alerts on a collision risk, a deviation and a delay; an
\* alert with another text would be one on a resolution.
ConditionTexts ==
  DeviationTexts \cup {"CRITICAL: Imminent collision risk", "WARNING: Potential collision",
                       "Schedule alert: running behind schedule"}

\* Before the task, the store held a deviation alert for the train with no
\* resolution alert for it after.
UnresolvedDeviationAlert(train) ==
  \E k \in 1..Len(ret.alerts_before) :
    /\ ret.alerts_before[k].recipient_ref = train.oid
    /\ ret.alerts_before[k].message.text \in DeviationTexts
    /\ \A l \in (k + 1)..Len(ret.alerts_before) :
         ret.alerts_before[l].recipient_ref = train.oid
           => ret.alerts_before[l].message.text \in ConditionTexts

\* The task has put a resolution alert for the train in the store.
ResolutionAlerted(train) ==
  \E k \in 1..Len(TaskAlerts) :
    /\ TaskAlerts[k].recipient_ref = train.oid
    /\ TaskAlerts[k].message.text \notin ConditionTexts

\* A deviation pass that raised nothing has run on the store as it is.
DeviationPassDone ==
  TaskStoreKept /\ ret.op = "monitor_train_deviations" /\ ret.exc = ""

\* C20: after a deviation pass, every active train found deviating has a
\* deviation alert from the pass, and every active train found on its route
\* that had an unresolved deviation alert has a resolution alert from it.
C20_DeviationAndResolutionAlerts ==
  DeviationPassDone =>
    \A i \in 1..Len(get_active_trains) :
      LET train == get_active_trains[i]
          assessment == detect_route_deviations(train.train_id,
                                                distance_threshold_default, ret.now).value
      IN  /\ assessment.deviation_detected => DeviationAlerted(train)
          /\ (~assessment.deviation_detected /\ UnresolvedDeviationAlert(train))
               => ResolutionAlerted(train)

(***************************************************************************)
(* Properties of the monitoring loop.                                      *)
(***************************************************************************)
\* The positions of one cycle in the order of the claim, the wait last.
CycleOrder ==
  <<"monitor_train_collisions", "monitor_train_deviations", "monitor_train_schedules",
    "generate_system_status_report", "wait">>

InPass == \E k \in 1..4 : monitor.pc = CycleOrder[k]

\* The position after the task the pass is at.
NextInCycle == CycleOrder[(CHOOSE k \in 1..4 : monitor.pc = CycleOrder[k]) + 1]

Ended == monitor.pc \in {"stopped", "cancelled"}

\* C18: the loop ends only after the stop event is set; whatever a task
\* raised, the step from it leads to the next task of the cycle (or is the
\* cancellation by a shutdown); every cycle reaches its wait, and while the
\* stop event is not set another cycle starts again and again.
C18_ExceptionsKeepLoopRunning ==
  /\ [](Ended => monitor.stop_event)
  /\ [][(InPass /\ monitor'.pc # monitor.pc)
          => \/ monitor'.pc = NextInCycle
             \/ monitor.stop_event /\ monitor'.pc = "cancelled"]_vars
  /\ []<>(monitor.stop_event \/ monitor.pc = "wait")
  /\ []<>(monitor.stop_event \/ monitor.pc = CycleOrder[1])

\* monitor_train_deviations has caught the TypeError of a route with a
\* checkpoint without coordinates, and monitor_train_schedules is next.
C18_Witness ==
  /\ ret.op = "monitor_train_deviations"
  /\ ret.exc = "TypeError"
  /\ monitor.pc = "monitor_train_schedules"
  /\ ~monitor.stop_event

\* With the stop event set no pass starts, and the wait is left for the end
\* of the loop only.
StopStartsNoPass ==
  [][monitor.stop_event =>
       /\ ~(~InPass /\ InPass')
       /\ (monitor.pc = "wait" /\ monitor'.pc # "wait") => monitor'.pc = "stopped"]_vars

\* C19 as stated: with the stop event set no pass starts and the wait ends
\* at once; a pass that is running goes on to its end, task by task, and
\* the loop then ends by its break.
C19_StopEndsLoopAfterPass ==
  /\ StopStartsNoPass
  /\ [][(monitor.stop_event /\ InPass /\ monitor'.pc # monitor.pc)
          => monitor'.pc = NextInCycle]_vars
  /\ monitor.stop_event ~> (monitor.pc = "stopped")

\* C19 as amended: a pass that is running with the stop event set goes on
\* task by task to its end, or the task is cancelled inside the pass; the
\* loop ends either way.
C19_StopEndsLoop ==
  /\ StopStartsNoPass
  /\ [][(monitor.stop_event /\ InPass /\ monitor'.pc # monitor.pc)
          => monitor'.pc \in {NextInCycle, "cancelled"}]_vars
  /\ monitor.stop_event ~> Ended

\* The loop has ended by its break right after the status report: the stop
\* event was set while that pass was running.
C19_Witness ==
  /\ monitor.pc = "stopped"
  /\ monitor.stop_event
  /\ ret.op = "generate_system_status_report"

(***************************************************************************)
(* The status of a train against its movement.  The fleet has two samples  *)
(* per train, the trains are in any status, and no sample arrives while    *)
(* the monitor runs.                                                       *)
(***************************************************************************)
InitStatus ==
  /\ alerts = <<>>
  /\ ret = NoCall
  /\ monitor = Started
  /\ routes = MonitoredRoutes(None)
  /\ \E s1 \in TRAIN_STATUS, s2 \in TRAIN_STATUS :
       trains = <<Train("T1", s1, "R1"), Train("T2", s2, "R2")>>
  /\ \E p1 \in {<<0, 10>>, <<0, 12>>, <<0, 40>>} :
       logs = <<Log("T1", <<0, 10>>, <<3000>>, FALSE), Log("T1", p1, <<3300>>, FALSE),
                Log("T2", <<500, 40>>, <<3000>>, FALSE),
                Log("T2", <<500, 40>>, <<3300>>, FALSE)>>

SpecStatus == InitStatus /\ [][NextLoop]_vars

\* The samples of the train that are no test, the most recent first.
RecentSamples(train_id) ==
  LET idx == {i \in 1..Len(logs) : /\ logs[i].train_id = train_id
                                    /\ "is_test" \in DOMAIN logs[i]
                                    /\ ~logs[i].is_test}
      Newer(i, j) == \/ SortKey(logs[i].timestamp) > SortKey(logs[j].timestamp)
                     \/ /\ SortKey(logs[i].timestamp) = SortKey(logs[j].timestamp)
                        /\ i < j
      Rank(i) == Cardinality({j \in idx : Newer(j, i)}) + 1
  IN  [k \in 1..Cardinality(idx) |-> logs[CHOOSE i \in idx : Rank(i) = k]]

\* The train has two samples, and moved less than 5 m between the last two.
MovedBelowThreshold(train_id) ==
  /\ Len(RecentSamples(train_id)) >= 2
  /\ calculate_distance(RecentSamples(train_id)[2].location,
                        RecentSamples(train_id)[1].location) < Sq(5)

\* The train has two samples, and moved 5 m or more between the last two.
MovedThresholdOrMore(train_id) ==
  /\ Len(RecentSamples(train_id)) >= 2
  /\ calculate_distance(RecentSamples(train_id)[2].location,
                        RecentSamples(train_id)[1].location) >= Sq(5)

\* A cycle of the monitor has run to its wait.
CycleDone == monitor.pc = "wait" /\ ret.op = "generate_system_status_report"

\* C21: when a cycle of the monitor has run on samples that did not change,
\* the status monitor has made its transitions: no train is left running
\* that moved less than the threshold between its two most recent samples,
\* and none is left halted that moved the threshold or more.
C21_StatusFollowsMovement ==
  CycleDone =>
    \A i \in 1..Len(trains) :
      /\ ~(/\ trains[i].current_status = "in_service_running"
           /\ MovedBelowThreshold(trains[i].train_id))
      /\ ~(/\ trains[i].current_status = "in_service_not_running"
           /\ MovedThresholdOrMore(trains[i].train_id))

(***************************************************************************)
(* The order of the pairwise scan.                                         *)
(***************************************************************************)
\* The train ids of the fleet in ascending order.
FleetIdsSorted == <<"T1", "T2", "T3">>

\* The documents sorted by train_id (the ids of a fleet are distinct).
SortedByTrainId(docs) ==
  LET present == SelectSeq(FleetIdsSorted,
                           LAMBDA id : \E i \in 1..Len(docs) : docs[i].train_id = id)
  IN  [k \in 1..Len(present) |->
         docs[CHOOSE i \in 1..Len(docs) : docs[i].train_id = present[k]]]

\* The pass recorded in ret, had the store returned the active trains
\* sorted by train_id.
SortedPass ==
  pair_scan(SortedByTrainId(get_active_trains), 1, inner_start(1), ret.now,
            [collision_risks |-> <<>>, alerts |-> SubSeq(alerts, 1, ret.alerts_before),
             calls |-> <<>>, exc |-> ""])

\* C22: whatever the order the store returns the active trains in, the pass
\* evaluates the pairs in the order of the sorted train ids: it returns the
\* assessments and stores the alerts of the pass over the sorted trains, in
\* the same order.
C22_StableOrder ==
  AllCall =>
    /\ ret.result.value = SortedPass.collision_risks
    /\ alerts = SortedPass.alerts

(***************************************************************************)
(* The detectors and the monitoring passes called in any order on one      *)
(* fleet: T1 is near the start of R1; T2 is on R1, 10 m or 12 m from T1,   *)
(* or on the parallel route R2: 12 m from T1, near the start of R2, or     *)
(* 150 m beside R2.  The routes have no start instant, or start at 1200,   *)
(* or at 4200, after every instant the monitor and the detectors run at.   *)
(***************************************************************************)
DetectorRoutes(start_time) ==
  <<ScheduledRoute("R1", <<Checkpoint(<<0, 0>>, 0, NoTag),
                           Checkpoint(<<0, 1000>>, 600, NoTag)>>, start_time),
    ScheduledRoute("R2", <<Checkpoint(<<500, 0>>, 0, NoTag),
                           Checkpoint(<<500, 1000>>, 600, NoTag)>>, start_time)>>

InitDetectors ==
  /\ alerts = <<>>
  /\ ret = NoCall
  /\ monitor = Started
  /\ \E start_time \in StartTimes \cup {<<4200>>} :
       routes = DetectorRoutes(start_time)
  /\ \E at \in {<<"R1", <<6, 18>>>>, <<"R1", <<0, 22>>>>,
                 <<"R2", <<0, 22>>>>, <<"R2", <<500, 40>>>>, <<"R2", <<650, 0>>>>} :
       /\ trains = <<Train("T1", IN_SERVICE_RUNNING, "R1"),
                     Train("T2", IN_SERVICE_RUNNING, at[1])>>
       /\ logs = <<Log("T1", <<0, 10>>, <<600>>, FALSE), Log("T2", at[2], <<600>>, FALSE)>>

NextDetectors ==
  \/ NextLoop
  \/ CheckCollisionRisk
  \/ CheckAllTrainCollisions
  \/ DetectRouteDeviations
  \/ IsTrainOnSchedule
  \/ GetExpectedLocation

SpecDetectors == InitDetectors /\ [][NextDetectors]_vars

DetectorOps ==
  {"check_collision_risk", "detect_route_deviations", "is_train_on_schedule",
   "get_expected_location"}

\* The detector of the call recorded in ret, called again on the store as it
\* is now with the arguments of that call.
CalledAgain ==
  CASE ret.op = "check_collision_risk" ->
         check_collision_risk(ret.train_id1, ret.train_id2, ret.now)
    [] ret.op = "detect_route_deviations" ->
         detect_route_deviations(ret.train_id, ret.distance_threshold,
                                 CHOOSE now \in SampleTimes : TRUE)
    [] ret.op = "is_train_on_schedule" ->
         is_train_on_schedule(ret.train_id, ret.tolerance_seconds, ret.now)
    [] ret.op = "get_expected_location" ->
         get_expected_location(ret.train_id, ret.current_time)

\* The step is the call of the detector recorded in ret, with the same
\* arguments, once more.
SameCallAgain ==
  /\ ret.op \in DetectorOps
  /\ ret'.op = ret.op
  /\ [ret' EXCEPT !.result = None] = [ret EXCEPT !.result = None]

AlertsOnlyAdded ==
  /\ Len(alerts') >= Len(alerts)
  /\ SubSeq(alerts', 1, Len(alerts)) = alerts

\* C24: no call of a detector and no task of a monitoring pass changes the
\* samples, the routes or the trains; alerts are only added.
C24_DetectorsWriteAlertsOnly ==
  [][/\ logs' = logs
     /\ routes' = routes
     /\ trains' = trains
     /\ AlertsOnlyAdded]_vars

\* Two passes have stored alerts, the second after the first.
C24_Witness ==
  /\ ret.op \in Range(MonitoringTasks)
  /\ ret.alerts_before # <<>>
  /\ Len(alerts) > Len(ret.alerts_before)

(***************************************************************************)
(* Collision alerts of one monitoring cycle.                               *)
(***************************************************************************)
CollisionTexts == {"CRITICAL: Imminent collision risk", "WARNING: Potential collision"}

\* The alerts the task recorded in ret has stored on a collision risk of the
\* pair, addressed to the train.
PairAlerts(train1_id, train2_id, train) ==
  {k \in 1..Len(TaskAlerts) :
     /\ TaskAlerts[k].message.text \in CollisionTexts
     /\ TaskAlerts[k].message.train1_id = train1_id
     /\ TaskAlerts[k].message.train2_id = train2_id
     /\ TaskAlerts[k].recipient_ref = train.oid}

\* C25: of the tasks of a cycle, monitor_train_collisions stores one alert
\* for each train of each pair at critical or predicted risk, and no other
\* task of the cycle stores a collision alert: the scan that emits them is
\* not run a second time.
C25_CollisionAlertsOncePerCycle ==
  /\ (ret.op = "monitor_train_collisions" /\ ret.exc = "") =>
       \A i, j \in 1..Len(get_active_trains) :
         LET train1 == get_active_trains[i]
             train2 == get_active_trains[j]
             risk == check_collision_risk(train1.train_id, train2.train_id, ret.now)
         IN  (i < j /\ risk.exc = "" /\ needs_alert(risk.value)) =>
               /\ Cardinality(PairAlerts(train1.train_id, train2.train_id, train1)) = 1
               /\ Cardinality(PairAlerts(train1.train_id, train2.train_id, train2)) = 1
  /\ (ret.op \in Range(MonitoringTasks) /\ ret.op # "monitor_train_collisions") =>
       \A k \in 1..Len(TaskAlerts) : TaskAlerts[k].message.text \notin CollisionTexts

(***************************************************************************)
(* The distance a deviation is reported with.                              *)
(***************************************************************************)
\* C26: a deviation is reported with a distance from the route that is
\* greater than the threshold of the call, also when the distance is the
\* least of those to the active segment and to the segments before and
\* after it.
C26_DeviationBeyondThreshold ==
  (DeviationCall /\ ret.result.exc = "" /\ ret.result.value.deviation_detected) =>
    ret.result.value.distance_from_route[1] > Sq(ret.distance_threshold)

\* A deviation is reported at the middle checkpoint of three: the distance
\* is the least over three segments.
C26_Witness ==
  /\ DeviationCall
  /\ ret.result.exc = ""
  /\ ret.result.value.deviation_detected
  /\ ret.result.value.expected_segment = <<1, 2>>
  /\ Len(routes[1].checkpoints) = 3

(***************************************************************************)
(* A route that has not started yet.                                       *)
(***************************************************************************)
\* The task recorded in ret has stored a schedule alert for the train.
DelayAlerted(train) ==
  \E k \in 1..Len(TaskAlerts) :
    /\ TaskAlerts[k].recipient_ref = train.oid
    /\ TaskAlerts[k].message.text = "Schedule alert: running behind schedule"

\* The route of the train starts after the instant now.
StartsAfter(train_id, now) ==
  /\ RouteOfTrain(train_id) # None
  /\ get(RouteOfTrain(train_id)[1], "start_time") # None
  /\ now < RouteOfTrain(train_id)[1].start_time[1]

\* C27: for a train whose route starts after the instant of the evaluation,
\* is_train_on_schedule reports no positive delay and does not take the
\* last checkpoint of the route as the expected one, and
\* monitor_train_schedules stores no delay alert for the train.
C27_NoDelayBeforeStart ==
  /\ (ScheduleCall /\ ScheduleEvaluated /\ Elapsed < 0) =>
       /\ ret.result.delay_seconds \in {None, <<0>>}
       /\ Len(ScheduleCheckpoints) >= 2 =>
            ret.result.scheduled_checkpoint
              # <<ScheduleCheckpoints[Len(ScheduleCheckpoints)]>>
  /\ (ret.op = "monitor_train_schedules" /\ ret.exc = "") =>
       \A i \in 1..Len(get_active_trains) :
         StartsAfter(get_active_trains[i].train_id, ret.now)
           => ~DelayAlerted(get_active_trains[i])

(***************************************************************************)
(* update_train_progress (app/core/tracking.py) and TrainService           *)
(* (app/services/train_service.py).  log_data is what a train sends:       *)
(* [location, timestamp, rfid_tag, is_test], location and timestamp        *)
(* optional, rfid_tag NoTag when the sample carries none.                 *)
(***************************************************************************)
\* Lines 192-208: the first checkpoint carrying the tag, when
\* verify_rfid_checkpoint matched one.
rfid_progress(result, checkpoints, rfid_tag, route_id, current_cp_idx) ==
  IF verify_rfid_checkpoint(rfid_tag, route_id, current_cp_idx).checkpoint = None
  THEN result
  ELSE LET tagged == {k \in 1..Len(checkpoints) : checkpoints[k].rfid_tag = rfid_tag}
       IN  IF tagged = {} THEN result
           ELSE LET i == (CHOOSE k \in tagged : \A l \in tagged : k <= l) - 1
                IN  [result EXCEPT
                       !.checkpoint_updated = TRUE,
                       !.current_checkpoint = <<checkpoints[i + 1]>>,
                       !.checkpoint_index = i,
                       !.route_completed = (i = Len(checkpoints) - 1),
                       !.next_checkpoint = IF i + 1 < Len(checkpoints)
                                           THEN <<checkpoints[i + 2]>> ELSE None]

\* "if cp_idx > current_cp_idx", line 224.
advanced(cp_idx, current_cp_idx) == cp_idx > current_cp_idx

\* Lines 211-233: the nearest checkpoint of the location sent, when RFID
\* has not updated the checkpoint.
location_progress(result, checkpoints, location, route_id, current_cp_idx) ==
  LET located == [result EXCEPT !.location_updated = TRUE]
      nearest == find_nearest_checkpoint(location, route_id)
      cp_idx == nearest.index
  IN  IF result.checkpoint_updated \/ ~advanced(cp_idx, current_cp_idx) THEN located
      ELSE [located EXCEPT
              !.checkpoint_updated = TRUE,
              !.current_checkpoint = nearest.checkpoint,
              !.checkpoint_index = cp_idx,
              !.route_completed = (cp_idx = Len(checkpoints) - 1),
              !.next_checkpoint = IF cp_idx + 1 < Len(checkpoints)
                                  THEN <<checkpoints[cp_idx + 2]>> ELSE None]

\* update_train_progress, on the store as it is when it runs.
update_train_progress(train_id, log_data, now) ==
  LET train == get_by_train_id(train_id)
      result == [train_id |-> train_id, timestamp |-> now,
                 location_updated |-> FALSE, checkpoint_updated |-> FALSE,
                 route_completed |-> FALSE, current_checkpoint |-> None,
                 checkpoint_index |-> -1, next_checkpoint |-> None]
  IN  IF train = None THEN [success |-> FALSE, error |-> "Train not found"]
      ELSE IF train[1].current_route_id = ""
      THEN [result EXCEPT !.location_updated = (log_data.location # None)]
      ELSE
      LET current_cp_idx == get_train_position(train_id, now).checkpoint_index
          route == get_by_route_id(train[1].current_route_id)
      IN  IF route = None \/ route[1].checkpoints = <<>>
          THEN [success |-> FALSE, error |-> "Route not found or invalid"]
          ELSE
          LET checkpoints == route[1].checkpoints
              by_rfid == IF log_data.rfid_tag = NoTag THEN result
                         ELSE rfid_progress(result, checkpoints, log_data.rfid_tag,
                                            train[1].current_route_id, current_cp_idx)
          IN  IF log_data.location = None THEN by_rfid
              ELSE location_progress(by_rfid, checkpoints, log_data.location,
                                     train[1].current_route_id, current_cp_idx)

\* TrainModel.update_status on the collection coll: update_one by _id.
TrainModel_update_status(coll, id, status) ==
  LET matching == {i \in 1..Len(coll) : coll[i].oid = id}
  IN  IF matching = {} THEN coll
      ELSE [coll EXCEPT ![CHOOSE i \in matching : \A j \in matching : i <= j]
                           .current_status = status]

\* TrainService.update_train_status on the collections tcoll and lcoll:
\* [success, trains, logs], the two collections after the call.  A change of
\* status is stored, and logged with a status_change entry.
update_train_status(tcoll, lcoll, train_id, new_status, now) ==
  LET train == first_of(tcoll, {i \in 1..Len(tcoll) : tcoll[i].train_id = train_id})
  IN  IF new_status \notin TRAIN_STATUS \/ train = None
      THEN [success |-> FALSE, trains |-> tcoll, logs |-> lcoll]
      ELSE IF train[1].current_status = new_status
      THEN [success |-> TRUE, trains |-> tcoll, logs |-> lcoll]
      ELSE [success |-> TRUE,
            trains |-> TrainModel_update_status(tcoll, train[1].oid, new_status),
            logs |-> LogOperations_create(lcoll,
                       [train_id |-> train_id, train_ref |-> train[1].oid,
                        event_type |-> "status_change",
                        details |-> [old_status |-> train[1].current_status,
                                     new_status |-> new_status],
                        timestamp |-> <<now>>])]

\* process_new_log, lines 158-165: the references to the train are added
\* and the timestamp is set if not provided.  is_test is stored when the
\* sample carries it.
stamped(log_data, train, now) ==
  LET timestamp == IF log_data.timestamp = None THEN <<now>> ELSE log_data.timestamp
  IN  IF log_data.is_test = None
      THEN [train_id |-> train.train_id, train_ref |-> train.oid,
            location |-> log_data.location, timestamp |-> timestamp,
            rfid_tag |-> log_data.rfid_tag]
      ELSE [train_id |-> train.train_id, train_ref |-> train.oid,
            location |-> log_data.location, timestamp |-> timestamp,
            rfid_tag |-> log_data.rfid_tag, is_test |-> log_data.is_test[1]]

\* process_new_log from line 171 on, once the sample is stored: [exc,
\* progress_update, collision_risks, trains, logs, alerts].
process_stored_log(train, log_data, now) ==
  With(<<update_train_progress(train.train_id, log_data, now),
         IF log_data.location = None
         THEN [collision_risks |-> <<>>, alerts |-> alerts, exc |-> ""]
         ELSE check_all_train_collisions(alerts, now)>>, LAMBDA found :
  LET train_id == train.train_id
      progress_update == found[1]
      checked == found[2]
      kept == [exc |-> checked.exc, progress_update |-> progress_update,
               collision_risks |-> checked.collision_risks,
               trains |-> trains, logs |-> logs, alerts |-> checked.alerts]
  IN  IF checked.exc # "" THEN kept
      ELSE IF ~("route_completed" \in DOMAIN progress_update
                 /\ progress_update.route_completed)
      THEN kept
      ELSE
      LET updated == update_train_status(trains, logs, train_id,
                                         "in_service_not_running", now)
      IN  [kept EXCEPT
             !.trains = updated.trains,
             !.logs = updated.logs,
             !.alerts = AlertModel_create(checked.alerts,
                          [sender_ref |-> SYSTEM_SENDER_ID,
                           recipient_ref |-> train.oid,
                           message |-> [text |-> "has completed its route",
                                        train_id |-> train_id],
                           location |-> as_floats(log_data.location),
                           timestamp |-> now])])

\* TrainModel.assign_route on the collection coll: update_one by _id.
TrainModel_assign_route(coll, train_id, route_id, route_ref) ==
  LET matching == {i \in 1..Len(coll) : coll[i].oid = train_id}
  IN  IF matching = {} THEN coll
      ELSE [coll EXCEPT ![CHOOSE i \in matching : \A j \in matching : i <= j]
                           .current_route_id = route_id]

\* RouteModel.assign_train on the collection coll: update_one with the
\* filter {"route_id": route_id}.
RouteModel_assign_train(coll, route_id, train_id, train_ref) ==
  LET matching == {i \in 1..Len(coll) : coll[i].route_id = route_id}
  IN  IF matching = {} THEN coll
      ELSE [coll EXCEPT ![CHOOSE i \in matching : \A j \in matching : i <= j]
                           .assigned_train_id = train_id]

\* TrainService.assign_route_to_train: [success, trains, routes, logs].
assign_route_to_train(train_id, route_id, now) ==
  LET train == get_by_train_id(train_id)
      route == get_by_route_id(route_id)
      refused == [success |-> FALSE, trains |-> trains, routes |-> routes, logs |-> logs]
  IN  IF train = None \/ route = None THEN refused
      ELSE IF /\ route[1].assigned_train_id # ""
              /\ route[1].assigned_train_id # train_id
      THEN refused
      ELSE
      LET assigned == TrainModel_assign_route(trains, train[1].oid,
                                              route[1].route_id, route[1].oid)
          linked == RouteModel_assign_train(routes, route[1].oid,
                                            train[1].train_id, train[1].oid)
          updated == update_train_status(assigned, logs, train_id, IN_SERVICE_RUNNING, now)
      IN  [success |-> TRUE, trains |-> updated.trains, routes |-> linked,
           logs |-> LogOperations_create(updated.logs,
                      [train_id |-> train_id, train_ref |-> train[1].oid,
                       event_type |-> "route_assigned",
                       details |-> [route_id |-> route_id],
                       timestamp |-> <<now>>])]

\* PUT /{train_id}/assign-route/{route_id} (app/routes/train.py); both path
\* parameters are document ids.  [status_code, trains, routes].
assign_route_endpoint(train_id, route_id) ==
  LET route == first_of(routes, {i \in 1..Len(routes) : routes[i].oid = route_id})
      train == first_of(trains, {i \in 1..Len(trains) : trains[i].oid = train_id})
  IN  IF route = None \/ train = None
      THEN [status_code |-> 404, trains |-> trains, routes |-> routes]
      ELSE [status_code |-> 200,
            trains |-> TrainModel_assign_route(trains, train_id,
                                               route[1].route_id, route[1].oid),
            routes |-> RouteModel_assign_train(routes, route_id,
                                               train[1].train_id, train[1].oid)]

\* PUT /{route_id}/assign-train/{train_id} (app/routes/route.py): the route
\* is updated first, then the train.
assign_train_endpoint(route_id, train_id) ==
  LET train == first_of(trains, {i \in 1..Len(trains) : trains[i].oid = train_id})
      route == first_of(routes, {i \in 1..Len(routes) : routes[i].oid = route_id})
  IN  IF train = None \/ route = None
      THEN [status_code |-> 404, trains |-> trains, routes |-> routes]
      ELSE [status_code |-> 200,
            routes |-> RouteModel_assign_train(routes, route_id,
                                               train[1].train_id, train[1].oid),
            trains |-> TrainModel_assign_route(trains, train_id,
                                               route[1].route_id, route[1].oid)]

(***************************************************************************)
(* TrainService and the assign-route endpoint called on one store.  RS     *)
(* runs diagonally from (0, 0) to (1000, 1000), R1 from (0, 0) to          *)
(* (0, 1000); the final checkpoint of each carries TAG_B.  T1 is on one of *)
(* the routes or on none, with a stored sample at (0, 0) or at             *)
(* (1000, 1000); T2 has no route and is far from the routes or 6 m from    *)
(* the end of RS.  A route names the train it is assigned to, "" when it   *)
(* is assigned to none.  One specification takes samples in, the other     *)
(* assigns routes.                                                         *)
(***************************************************************************)
ServiceRoute(route_id, last, assigned_train_id) ==
  [oid |-> "oid_" \o route_id, route_id |-> route_id,
   checkpoints |-> <<Checkpoint(<<0, 0>>, 0, NoTag), Checkpoint(last, 600, "TAG_B")>>,
   assigned_train_id |-> assigned_train_id]

ServiceRoutes(route_id) ==
  <<ServiceRoute("RS", <<1000, 1000>>, IF route_id = "RS" THEN "T1" ELSE ""),
    ServiceRoute("R1", <<0, 1000>>, IF route_id = "R1" THEN "T1" ELSE "")>>

InitService ==
  /\ alerts = <<>>
  /\ ret = NoCall
  /\ monitor = NotMonitoring
  /\ \E route_id \in {"RS", "R1", ""},
        status \in {IN_SERVICE_RUNNING, "in_service_not_running"},
        p1 \in {<<0, 0>>, <<1000, 1000>>}, p2 \in {<<500, 40>>, <<1000, 1006>>} :
       /\ routes = ServiceRoutes(route_id)
       /\ trains = <<Train("T1", status, route_id), Train("T2", IN_SERVICE_RUNNING, "")>>
       /\ logs = <<Log("T1", p1, <<3000>>, FALSE), Log("T2", p2, <<3000>>, FALSE)>>

\* What a train sends.
SentLogs ==
  [location : {None, <<1000, 1000>>, <<0, 1000>>},
   timestamp : {None, <<3300>>},
   rfid_tag : {NoTag, "TAG_B"},
   is_test : {None, <<FALSE>>, <<TRUE>>}]

ServiceNows == {3600}

\* A request is between two of its store operations once the sample is
\* stored.
Stored == ret.op = "LogModel.create"

\* process_new_log up to line 168: the sample is stored, unless the train
\* is unknown.  The call records where the stored samples placed the train
\* before.
ProcessNewLog ==
  /\ ~Stored
  /\ Len(logs) < MaxLogs
  /\ \E train_id \in {"T1", "T9"}, log_data \in SentLogs, now \in ServiceNows :
       LET train == get_by_train_id(train_id)
       IN  IF train = None
           THEN /\ ret' = [op |-> "process_new_log", train_id |-> train_id,
                           log_data |-> log_data, now |-> now,
                           result |-> [exc |-> "", success |-> FALSE]]
                /\ UNCHANGED logs
           ELSE /\ logs' = LogOperations_create(logs, stamped(log_data, train[1], now))
                /\ ret' = [op |-> "LogModel.create", train_id |-> train_id,
                           log_data |-> log_data, now |-> now, train |-> train[1],
                           previous_index |-> get_train_position(train_id, now).checkpoint_index,
                           alerts_read |-> alerts]
  /\ UNCHANGED <<trains, routes, alerts, monitor>>

\* process_new_log from line 171 on.  An exception of the collision check
\* ends the call; the alerts created before it stay.
ProcessStoredLog ==
  /\ Stored
  /\ \E done \in {process_stored_log(ret.train, ret.log_data, ret.now)} :
       /\ trains' = done.trains
       /\ logs' = done.logs
       /\ alerts' = done.alerts
       /\ ret' = [op |-> "process_new_log", train_id |-> ret.train_id,
                  log_data |-> ret.log_data, now |-> ret.now, train |-> ret.train,
                  previous_index |-> ret.previous_index,
                  alerts_read |-> ret.alerts_read,
                  result |-> [exc |-> done.exc, success |-> done.exc = "",
                              progress_update |-> done.progress_update,
                              collision_risks |-> done.collision_risks]]
  /\ UNCHANGED <<routes, monitor>>

AssignRouteToTrain ==
  /\ Len(logs) < MaxLogs
  /\ \E train_id \in {"T1", "T2", "T9"}, route_id \in {"RS", "R1", "R9"},
        now \in ServiceNows :
       \E done \in {assign_route_to_train(train_id, route_id, now)} :
         /\ trains' = done.trains
         /\ routes' = done.routes
         /\ logs' = done.logs
         /\ ret' = [op |-> "assign_route_to_train", train_id |-> train_id,
                    route_id |-> route_id, now |-> now,
                    result |-> [success |-> done.success]]
  /\ UNCHANGED <<alerts, monitor>>

AssignRouteEndpoint ==
  /\ \E train_id \in {"oid_T1", "oid_T2", "oid_T9"}, route_id \in {"oid_RS", "oid_R1", "oid_R9"} :
       \E done \in {assign_route_endpoint(train_id, route_id)} :
         /\ trains' = done.trains
         /\ routes' = done.routes
         /\ ret' = [op |-> "PUT assign-route", train_id |-> train_id,
                    route_id |-> route_id,
                    result |-> [status_code |-> done.status_code]]
  /\ UNCHANGED <<logs, alerts, monitor>>

NextService == ProcessNewLog \/ ProcessStoredLog

SpecService == InitService /\ [][NextService]_vars

AssignTrainEndpoint ==
  /\ \E route_id \in {"oid_RS", "oid_R1", "oid_R9"}, train_id \in {"oid_T1", "oid_T2", "oid_T9"} :
       \E done \in {assign_train_endpoint(route_id, train_id)} :
         /\ trains' = done.trains
         /\ routes' = done.routes
         /\ ret' = [op |-> "PUT assign-train", train_id |-> train_id,
                    route_id |-> route_id,
                    result |-> [status_code |-> done.status_code]]
  /\ UNCHANGED <<logs, alerts, monitor>>

NextAssign == AssignRouteToTrain \/ AssignRouteEndpoint \/ AssignTrainEndpoint

SpecAssign == InitService /\ [][NextAssign]_vars

\* C28: when process_new_log has ingested a non-test sample whose location is
\* nearest to the final checkpoint of the train's route while the stored
\* samples placed the train at an earlier checkpoint before, the progress
\* update reports checkpoint_updated and route_completed, the train is
\* in_service_not_running, and the call created exactly one route-completion
\* alert for the train.
ProcessCall == ret.op = "process_new_log" /\ "train" \in DOMAIN ret

FinalIndex == Len(get_by_route_id(ret.train.current_route_id)[1].checkpoints) - 1

ReachesFinalCheckpoint ==
  /\ ProcessCall
  /\ ret.log_data.is_test = <<FALSE>>
  /\ ret.log_data.location # None
  /\ ret.train.current_route_id # ""
  /\ find_nearest_checkpoint(ret.log_data.location, ret.train.current_route_id).index
       = FinalIndex
  /\ ret.previous_index >= 0
  /\ ret.previous_index < FinalIndex

CompletionAlerts ==
  {i \in Len(ret.alerts_read) + 1..Len(alerts) :
     /\ alerts[i].message.text = "has completed its route"
     /\ alerts[i].recipient_ref = ret.train.oid}

C28_RouteCompletion ==
  ReachesFinalCheckpoint =>
    /\ ret.result.exc = ""
    /\ ret.result.progress_update.checkpoint_updated
    /\ ret.result.progress_update.route_completed
    /\ get_by_train_id(ret.train_id)[1].current_status = "in_service_not_running"
    /\ Cardinality(CompletionAlerts) = 1

\* C29: after a successful route assignment, by the service or by one of the
\* two PUT endpoints, the train's current_route_id is the route's route_id
\* and the route's assigned_train_id is the train's train_id.
Linked(train, route) ==
  /\ train.current_route_id = route.route_id
  /\ route.assigned_train_id = train.train_id

ServiceAssigned == ret.op = "assign_route_to_train" /\ ret.result.success

EndpointAssigned ==
  /\ ret.op \in {"PUT assign-route", "PUT assign-train"}
  /\ ret.result.status_code = 200

C29_BothSidesLinked ==
  /\ ServiceAssigned =>
       Linked(get_by_train_id(ret.train_id)[1], get_by_route_id(ret.route_id)[1])
  /\ EndpointAssigned =>
       Linked(first_of(trains, {i \in 1..Len(trains) : trains[i].oid = ret.train_id})[1],
              first_of(routes, {i \in 1..Len(routes) : routes[i].oid = ret.route_id})[1])

(***************************************************************************)
(* The collision pass of the monitor while the API deletes trains.  The    *)
(* pass reads the running trains once and awaits the store for every pair, *)
(* so a deletion can take place between any two of its steps; ret carries  *)
(* the pass: the trains it read, the pair it is at and what it has found.  *)
(* T1 is at (0, 0); T2 is 10 m from it or far away; T3 is 6 m from T1 or   *)
(* far away, and running or not.  No train has a route.                    *)
(***************************************************************************)
\* TrainModel.delete on the collection coll: delete_one by _id.
TrainModel_delete(coll, id) ==
  LET matching == {i \in 1..Len(coll) : coll[i].oid = id}
  IN  IF matching = {} THEN coll
      ELSE LET first == CHOOSE i \in matching : \A j \in matching : i <= j
           IN  SubSeq(coll, 1, first - 1) \o SubSeq(coll, first + 1, Len(coll))

InitConcurrent ==
  /\ alerts = <<>>
  /\ ret = NoCall
  /\ monitor = NotMonitoring
  /\ routes = <<>>
  /\ \E p2 \in {<<6, 8>>, <<240, 240>>}, p3 \in {<<0, 6>>, <<500, 500>>},
        status \in {IN_SERVICE_RUNNING, "maintenance"} :
       /\ trains = <<Train("T1", IN_SERVICE_RUNNING, ""), Train("T2", IN_SERVICE_RUNNING, ""),
                     Train("T3", status, "")>>
       /\ logs = <<Log("T1", <<0, 0>>, <<3600>>, FALSE), Log("T2", p2, <<3600>>, FALSE),
                   Log("T3", p3, <<3600>>, FALSE)>>

InPairScan == ret.op = "pair_scan"

\* The loops are over: every pair was visited, or an exception left them.
ScanOver ==
  \/ ret.acc.exc # ""
  \/ ret.i > Len(ret.active_trains)
  \/ ret.i = Len(ret.active_trains) /\ ret.j > Len(ret.active_trains)

\* monitor_train_collisions calls check_all_train_collisions, which reads
\* the running trains (collision.py line 152).
ReadActiveTrains ==
  /\ ~InPairScan
  /\ Len(alerts) < MaxAlerts
  /\ \E now \in MonitorNows :
       ret' = [op |-> "pair_scan", now |-> now, active_trains |-> get_active_trains,
               i |-> 1, j |-> inner_start(1), alerts_read |-> alerts,
               acc |-> [collision_risks |-> <<>>, alerts |-> alerts,
                        calls |-> <<>>, exc |-> ""]]
  /\ UNCHANGED <<trains, routes, logs, alerts, monitor>>

\* One round of the inner loop, lines 158-169, on the store as it is now.
CheckPair ==
  /\ InPairScan
  /\ ~ScanOver
  /\ IF ret.j > Len(ret.active_trains)
     THEN /\ ret' = [ret EXCEPT !.i = ret.i + 1, !.j = inner_start(ret.i + 1)]
          /\ UNCHANGED alerts
     ELSE \E done \in {pair_step(ret.active_trains[ret.i].train_id,
                                  ret.active_trains[ret.j].train_id,
                                  check_collision_risk(ret.active_trains[ret.i].train_id,
                                                       ret.active_trains[ret.j].train_id,
                                                       ret.now),
                                  ret.now, [ret.acc EXCEPT !.alerts = alerts])} :
            /\ alerts' = done.alerts
            /\ ret' = [ret EXCEPT !.j = ret.j + 1, !.acc = done]
  /\ UNCHANGED <<trains, routes, logs, monitor>>

\* monitor_train_collisions returns what the scan lists, or [] when the scan
\* raised (monitor.py lines 31-45).  deleted names the trains the pass read
\* that are no longer stored.
PassReturns ==
  /\ InPairScan
  /\ ScanOver
  /\ ret' = [op |-> "monitor_train_collisions", now |-> ret.now,
             active_trains |-> ret.active_trains, alerts_read |-> ret.alerts_read,
             deleted |-> {ret.active_trains[k].train_id : k \in
                            {l \in 1..Len(ret.active_trains) :
                               get_by_train_id(ret.active_trains[l].train_id) = None}},
             result |-> [exc |-> ret.acc.exc, calls |-> ret.acc.calls,
                         value |-> IF ret.acc.exc # "" THEN <<>>
                                   ELSE ret.acc.collision_risks]]
  /\ UNCHANGED <<trains, routes, logs, alerts, monitor>>

\* DELETE /trains/{id} while a pass is under way.
DeleteTrain ==
  /\ InPairScan
  /\ \E id \in {"oid_T1", "oid_T2", "oid_T3"} :
       /\ \E k \in 1..Len(trains) : trains[k].oid = id
       /\ trains' = TrainModel_delete(trains, id)
  /\ UNCHANGED <<routes, logs, alerts, ret, monitor>>

NextConcurrent == ReadActiveTrains \/ CheckPair \/ PassReturns \/ DeleteTrain

SpecConcurrent == InitConcurrent /\ [][NextConcurrent]_vars

\* C30: when a train the pass read as running has been deleted before the
\* pass returns, the pass does not fail, and every pair of trains it read
\* that are still stored was evaluated, its risk is returned unless it is
\* "none", and a critical or predicted risk has its alerts.
PassReturned == ret.op = "monitor_train_collisions"

ReadIds == {ret.active_trains[k].train_id : k \in 1..Len(ret.active_trains)}

\* The pairs the pass read, in scan order, without a deleted train.
OtherPairs ==
  {<<ret.active_trains[k].train_id, ret.active_trains[l].train_id>> :
     k, l \in 1..Len(ret.active_trains)} \cap
  {pair \in (ReadIds \ ret.deleted) \X (ReadIds \ ret.deleted) :
     \E k, l \in 1..Len(ret.active_trains) :
        /\ k < l
        /\ ret.active_trains[k].train_id = pair[1]
        /\ ret.active_trains[l].train_id = pair[2]}

PairHandled(pair) ==
  With(check_collision_risk(pair[1], pair[2], ret.now).value, LAMBDA risk :
    /\ \E k \in 1..Len(ret.result.calls) : ret.result.calls[k] = pair
    /\ risk.collision_risk # "none" =>
         \E k \in 1..Len(ret.result.value) :
            /\ ret.result.value[k].train1_id = pair[1]
            /\ ret.result.value[k].train2_id = pair[2]
            /\ ret.result.value[k].collision_risk = risk.collision_risk
    /\ needs_alert(risk) =>
         \A n \in 1..2 :
            \E a \in Len(ret.alerts_read) + 1..Len(alerts) :
               /\ alerts[a].recipient_ref = get_by_train_id(pair[n])[1].oid
               /\ alerts[a].message.train1_id = pair[1]
               /\ alerts[a].message.train2_id = pair[2])

C30_PassToleratesDeletion ==
  (PassReturned /\ ret.deleted # {}) =>
    /\ ret.result.exc = ""
    /\ \A pair \in OtherPairs : PairHandled(pair)

====
